---------------------------- MODULE Spec2Model ----------------------------
(***************************************************************************)
(* Model of the GitHub Copilot adapters of TradingAgents-CN:               *)
(*   tradingagents/llm_adapters/copilot_adapter.py          (ChatCopilot)  *)
(*   tradingagents/llm_adapters/copilot_business_adapter.py                *)
(*                                                  (ChatCopilotBusiness)  *)
(* and of the token helper scripts/get_github_token.py.                    *)
(*                                                                         *)
(* Python strings are sequences of one-character strings, so that `in`,    *)
(* lower(), startswith() and strip() are computed character by character.  *)
(* Temperatures are counted in halves (TEMP_ONE = 1.0).                    *)
(***************************************************************************)
EXTENDS Integers, Sequences, FiniteSets, TLC

VARIABLES
  environ,    \* os.environ: variable name -> value, None when unset
  ide_files,  \* tokens stored in the local IDE configuration files, in scan order
  cop,        \* the last ChatCopilot construction: its arguments and what it handed on
  biz,        \* the last ChatCopilotBusiness construction
  messages,   \* the message list handed to _convert_messages
  encoded,    \* what _convert_messages returned for it, NotRun before the call
  calls,      \* number of ChatCopilotBusiness._generate invocations so far
  posts,      \* number of HTTP POST requests issued so far
  request,    \* the last request posted: client handle, url, headers, JSON body
  response,   \* what the HTTP client gave back for it
  outcome,    \* how the last _generate ended: a ChatResult or a raised exception
  sent_auth,  \* the authorization headers posted by the adapter now in biz
  handles,    \* the HTTP client handles created so far, each open or closed
  script,     \* scripts/get_github_token.py: its position, token and exit code
  env_file,   \* the text of the project's .env file, NoFile when it is missing
  client,     \* a CopilotHTTPClient or CopilotAsyncHTTPClient made on its own
  built,      \* the last request that client built: headers given and headers set
  instances,  \* the ChatCopilotBusiness instances alive side by side, in order made
  caller,     \* which of them made the last _generate call, 0 before any call
  sent_ids    \* per instance, the <<vscode-machineid, vscode-sessionid>> pairs it sent

adapter_vars == <<environ, ide_files, cop, biz, messages, encoded>>

generate_vars == <<calls, posts, request, response, outcome, sent_auth>>

script_vars == <<script, env_file>>

client_vars == <<client, built>>

instance_vars == <<instances, caller, sent_ids>>

vars == <<adapter_vars, generate_vars, handles, script_vars, client_vars, instance_vars>>

----------------------------------------------------------------------------
(* Bounds of the model.                                                    *)

\* temperatures 0, 0.5, .. MaxTemp/2 are tried
MaxTemp == 3
\* longest credential text tried for the Business adapter
MaxTokLen == 3
\* longest message list tried
MaxMsgs == 2

----------------------------------------------------------------------------
(* Python values.                                                          *)

\* Python None; no string is equal to it (every character of a string is one
\* character long).
None == <<"None">>

\* Python None where an int is expected (Optional[int])
NONE_INT == -1

\* bool(v) of an Optional[str]
Truthy(v) == v # None /\ v # <<>>

\* sub in s
Contains(sub, s) ==
  \E i \in 0..(Len(s) - Len(sub)) : SubSeq(s, i + 1, i + Len(sub)) = sub

\* s.startswith(p)
StartsWith(s, p) ==
  Len(p) <= Len(s) /\ SubSeq(s, 1, Len(p)) = p

UPPER ==
  <<"A","B","C","D","E","F","G","H","I","J","K","L","M",
    "N","O","P","Q","R","S","T","U","V","W","X","Y","Z">>

LOWER ==
  <<"a","b","c","d","e","f","g","h","i","j","k","l","m",
    "n","o","p","q","r","s","t","u","v","w","x","y","z">>

LowerChar(c) ==
  IF \E i \in 1..Len(UPPER) : UPPER[i] = c
  THEN LOWER[CHOOSE i \in 1..Len(UPPER) : UPPER[i] = c]
  ELSE c

\* s.lower()
Lower(s) == [i \in 1..Len(s) |-> LowerChar(s[i])]

----------------------------------------------------------------------------
(* String literals of copilot_adapter.py.                                  *)

DEFAULT_HOST ==
  <<"h","t","t","p","s",":","/","/","m","o","d","e","l","s",".","i","n","f","e","r","e","n","c","e",".","a","i",".","a","z","u","r","e",".","c","o","m">>

ALT_HOST ==
  <<"h","t","t","p","s",":","/","/","a","p","i",".","g","i","t","h","u","b","c","o","p","i","l","o","t",".","c","o","m">>

S_azure_com ==
  <<"a","z","u","r","e",".","c","o","m">>

S_api_githubcopilot_com ==
  <<"a","p","i",".","g","i","t","h","u","b","c","o","p","i","l","o","t",".","c","o","m">>

S_claude ==
  <<"c","l","a","u","d","e">>

S_gpt_5 ==
  <<"g","p","t","-","5">>

S_o1_preview ==
  <<"o","1","-","p","r","e","v","i","e","w">>

S_o1_mini ==
  <<"o","1","-","m","i","n","i">>

S_o1 ==
  <<"o","1">>

S_Bearer ==
  <<"B","e","a","r","e","r"," ">>

S_GitHub_Bearer ==
  <<"G","i","t","H","u","b","-","B","e","a","r","e","r"," ">>

\* temperature 1.0, in halves
TEMP_ONE == 2

\* the value written under max_completion_tokens
MAX_COMPLETION_TOKENS == 8000

----------------------------------------------------------------------------
(* Inputs tried.                                                           *)

URL_UPPER_AZURE ==
  <<"h","t","t","p","s",":","/","/","X",".","A","Z","U","R","E",".","C","O","M">>

URL_UPPER_ALT ==
  <<"h","t","t","p","s",":","/","/","A","P","I",".","G","I","T","H","U","B","C","O","P","I","L","O","T",".","C","O","M">>

URL_CUSTOM ==
  <<"h","t","t","p",":","/","/","l","o","c","a","l","h","o","s","t">>

M_gpt_4o ==
  <<"g","p","t","-","4","o">>

M_gpt_4_1 ==
  <<"g","p","t","-","4",".","1">>

M_gpt_5 ==
  <<"g","p","t","-","5">>

M_GPT_5_mini ==
  <<"G","P","T","-","5","-","m","i","n","i">>

M_claude_sonnet ==
  <<"c","l","a","u","d","e","-","s","o","n","n","e","t","-","4",".","5">>

M_Claude_3_5 ==
  <<"C","l","a","u","d","e","-","3",".","5">>

M_o1_preview ==
  <<"o","1","-","p","r","e","v","i","e","w">>

M_O1_Mini ==
  <<"O","1","-","M","i","n","i">>

M_o1 ==
  <<"o","1">>

M_o1_pro ==
  <<"o","1","-","p","r","o">>

M_gemini ==
  <<"g","e","m","i","n","i","-","2",".","5","-","p","r","o">>

\* model identifiers tried
Models ==
  { M_gpt_4o, M_gpt_4_1, M_gpt_5, M_GPT_5_mini, M_claude_sonnet, M_Claude_3_5,
    M_o1_preview, M_O1_Mini, M_o1, M_o1_pro, M_gemini }

\* base_url arguments tried: absent, empty, the two hosts, their upper-case
\* spellings and an unrelated URL
BaseUrls ==
  { None, <<>>, DEFAULT_HOST, ALT_HOST, URL_UPPER_AZURE, URL_UPPER_ALT, URL_CUSTOM }

Temperatures == 0..MaxTemp

\* max_tokens arguments tried
MaxTokensArgs == { NONE_INT, 500, 8000 }

\* explicit api_key arguments tried
ApiKeyArgs == { None, <<>>, <<"k">> }

\* uuid.uuid4() draws
Uuids == { "uuid-1", "uuid-2" }

----------------------------------------------------------------------------
(* copilot_adapter.py: CopilotHTTPClient.                                  *)

\* a build_request that rewrites every authorization header, whatever it
\* starts with
build_request_AnyScheme(use_github_bearer, headers) ==
  IF /\ use_github_bearer
     /\ "authorization" \in DOMAIN headers
  THEN [headers EXCEPT !["authorization"] =
          S_GitHub_Bearer \o SubSeq(@, 8, Len(@))]
  ELSE headers

\* CopilotHTTPClient.build_request: the headers of the request built from
\* `headers` (a function from lower-case header names to values) by a client
\* whose flag is use_github_bearer.
build_request(use_github_bearer, headers) ==
  IF /\ use_github_bearer
     /\ "authorization" \in DOMAIN headers
     /\ StartsWith(headers["authorization"], S_Bearer)
  THEN [headers EXCEPT !["authorization"] =
          S_GitHub_Bearer \o SubSeq(@, 8, Len(@))]
  ELSE headers

\* CopilotAsyncHTTPClient.build_request: the same rewrite, written out again in
\* the asynchronous client
async_build_request(use_github_bearer, headers) ==
  IF /\ use_github_bearer
     /\ "authorization" \in DOMAIN headers
     /\ StartsWith(headers["authorization"], S_Bearer)
  THEN [headers EXCEPT !["authorization"] =
          S_GitHub_Bearer \o SubSeq(@, 8, Len(@))]
  ELSE headers

\* CopilotHTTPClient.__init__ and CopilotAsyncHTTPClient.__init__: the flag is
\* popped from the keyword arguments, False when the caller gave none
CopilotHTTPClient_init(class, kwargs) ==
  [constructed |-> TRUE,
   class |-> class,
   use_github_bearer |-> IF "use_github_bearer" \in DOMAIN kwargs
                         THEN kwargs["use_github_bearer"]
                         ELSE FALSE]

\* client.build_request(...), dispatched on the class of the client
ClientBuildRequest(c, headers) ==
  IF c.class = "CopilotAsyncHTTPClient"
  THEN async_build_request(c.use_github_bearer, headers)
  ELSE build_request(c.use_github_bearer, headers)

----------------------------------------------------------------------------
(* copilot_adapter.py: get_copilot_token_from_ide.                         *)

\* a stored token is taken only when it is longer than this
MIN_IDE_TOKEN_LEN == 20

\* The first token of the configuration files, in scan order, that is non-empty
\* and longer than MIN_IDE_TOKEN_LEN; None when there is none.
get_copilot_token_from_ide(files) ==
  LET ok == { i \in 1..Len(files) :
                Truthy(files[i]) /\ Len(files[i]) > MIN_IDE_TOKEN_LEN }
  IN  IF ok = {} THEN None
      ELSE files[CHOOSE i \in ok : \A j \in ok : i <= j]

----------------------------------------------------------------------------
(* copilot_adapter.py: ChatCopilot.__init__.                               *)

chat_api_models == << S_claude, S_gpt_5, S_o1_preview, S_o1_mini >>

\* mutant of AnyChatApiModel: the keywords are looked for in model, not in
\* model.lower()
AnyChatApiModel_NoLower(model) ==
  \E i \in 1..Len(chat_api_models) : Contains(chat_api_models[i], model)

\* any(m in model.lower() for m in chat_api_models)
AnyChatApiModel(model) ==
  \E i \in 1..Len(chat_api_models) : Contains(chat_api_models[i], Lower(model))

\* the test that sends a construction without base_url to the Chat API
NeedsChatApi(model, use_chat_api) ==
  use_chat_api \/ AnyChatApiModel(model)

\* mutant of SelectBaseUrl: the endpoint is selected even when a base_url is given
SelectBaseUrl_AlwaysSelect(model, base_url, use_chat_api) ==
  IF NeedsChatApi(model, use_chat_api) THEN ALT_HOST ELSE DEFAULT_HOST

\* base_url after the endpoint selection
SelectBaseUrl(model, base_url, use_chat_api) ==
  IF ~Truthy(base_url)
  THEN IF NeedsChatApi(model, use_chat_api) THEN ALT_HOST ELSE DEFAULT_HOST
  ELSE base_url

\* use_chat_api after the endpoint selection
SelectUseChatApi(model, base_url, use_chat_api) ==
  IF ~Truthy(base_url) /\ NeedsChatApi(model, use_chat_api)
  THEN TRUE
  ELSE use_chat_api

\* mutant of CoerceTemperature: only a temperature above 1.0 is reset
CoerceTemperature_Clamp(base_url, temperature) ==
  IF Contains(S_azure_com, Lower(base_url))
  THEN IF temperature > TEMP_ONE THEN TEMP_ONE ELSE temperature
  ELSE temperature

\* temperature after the Azure AI Inference restriction
CoerceTemperature(base_url, temperature) ==
  IF Contains(S_azure_com, Lower(base_url))
  THEN IF temperature # TEMP_ONE THEN TEMP_ONE ELSE temperature
  ELSE temperature

\* mutant of UsesMaxCompletionTokens: the test is made only for the models the
\* Chat API keywords match
UsesMaxCompletionTokens_ChatOnly(model) ==
  /\ AnyChatApiModel(model)
  /\ Contains(S_gpt_5, Lower(model)) \/ Contains(S_o1, Lower(model))

\* "gpt-5" in model.lower() or "o1" in model.lower()
UsesMaxCompletionTokens(model) ==
  Contains(S_gpt_5, Lower(model)) \/ Contains(S_o1, Lower(model))

\* max_tokens handed to the parent class
SelectMaxTokens(model, max_tokens) ==
  IF UsesMaxCompletionTokens(model) THEN NONE_INT ELSE max_tokens

\* init_kwargs['model_kwargs'] handed to the parent class: a function from
\* field names to values (the caller passes no model_kwargs of its own)
SelectModelKwargs(model) ==
  IF UsesMaxCompletionTokens(model)
  THEN [k \in {"max_completion_tokens"} |-> MAX_COMPLETION_TOKENS]
  ELSE << >>

\* mutant of IdeMode: the base URL is not looked at
IdeMode_FlagOnly(use_chat_api, base_url) ==
  use_chat_api

\* the test that switches the IDE plugin impersonation on
IdeMode(use_chat_api, base_url) ==
  use_chat_api \/ Contains(S_api_githubcopilot_com, base_url)

\* init_kwargs['default_headers']: the IDE headers, none outside IDE mode
IdeHeaders(ide_mode, session_id, machine_id) ==
  IF ide_mode
  THEN [ Editor_Version        |-> "vscode/1.95.0",
         Editor_Plugin_Version |-> "copilot/1.250.0",
         Openai_Organization   |-> "github-copilot",
         Openai_Intent         |-> "conversation-panel",
         VScode_SessionId      |-> session_id,
         VScode_MachineId      |-> machine_id,
         X_GitHub_Api_Version  |-> "2023-07-07",
         User_Agent            |-> "GithubCopilot/1.250.0" ]
  ELSE << >>

\* api_key after the session token lookup, which happens in IDE mode only
SessionTokenKey(ide_mode, api_key, env) ==
  IF ide_mode /\ ~Truthy(api_key) /\ Truthy(env["GITHUB_COPILOT_SESSION_TOKEN"])
  THEN env["GITHUB_COPILOT_SESSION_TOKEN"]
  ELSE api_key

\* the environment variables ChatCopilot.__init__ itself reads
SessionTokenReads(ide_mode, api_key) ==
  IF ide_mode /\ ~Truthy(api_key) THEN {"GITHUB_COPILOT_SESSION_TOKEN"} ELSE {}

\* init_kwargs['http_client']: a CopilotHTTPClient in IDE mode; otherwise none is
\* passed and the parent class keeps its own client, which rewrites nothing
SelectHttpClient(ide_mode) ==
  IF ide_mode
  THEN [class |-> "CopilotHTTPClient", use_github_bearer |-> TRUE]
  ELSE [class |-> "default", use_github_bearer |-> FALSE]

\* init_kwargs['http_async_client']: a CopilotAsyncHTTPClient in IDE mode
SelectHttpAsyncClient(ide_mode) ==
  IF ide_mode
  THEN [class |-> "CopilotAsyncHTTPClient", use_github_bearer |-> TRUE]
  ELSE [class |-> "default", use_github_bearer |-> FALSE]

\* OpenAICompatibleBase.__init__ (openai_compatible_base.py), as far as the
\* credential goes: the explicit api_key, else the environment variable named
\* by api_key_env_var, else the construction fails.
OpenAICompatibleBase_init(api_key, api_key_env_var, env) ==
  LET key == IF Truthy(api_key) THEN api_key ELSE env[api_key_env_var]
  IN  [ status    |-> IF Truthy(key) THEN "ok" ELSE "failed",
        api_key   |-> key,
        env_reads |-> IF Truthy(api_key) THEN {} ELSE {api_key_env_var} ]

\* ChatCopilot.__init__: the arguments, what is handed to the parent class, and
\* how the construction ends.
ChatCopilot_init(model, api_key, base_url, temperature, max_tokens, use_chat_api, session_id, machine_id, env) ==
  LET url    == SelectBaseUrl(model, base_url, use_chat_api)
      chat   == SelectUseChatApi(model, base_url, use_chat_api)
      ide    == IdeMode(chat, url)
      key    == SessionTokenKey(ide, api_key, env)
      parent == OpenAICompatibleBase_init(key, "GITHUB_COPILOT_TOKEN", env)
  IN  [ status          |-> parent.status,
        args            |-> [ model        |-> model,
                              api_key      |-> api_key,
                              base_url     |-> base_url,
                              temperature  |-> temperature,
                              max_tokens   |-> max_tokens,
                              use_chat_api |-> use_chat_api ],
        model           |-> model,
        base_url        |-> url,
        use_chat_api    |-> chat,
        temperature     |-> CoerceTemperature(url, temperature),
        max_tokens      |-> SelectMaxTokens(model, max_tokens),
        model_kwargs    |-> SelectModelKwargs(model),
        default_headers |-> IdeHeaders(ide, session_id, machine_id),
        http_client     |-> SelectHttpClient(ide),
        http_async_client |-> SelectHttpAsyncClient(ide),
        api_key         |-> parent.api_key,
        env_reads       |-> SessionTokenReads(ide, api_key) \cup parent.env_reads ]

\* the HTTP client handles a ChatCopilot construction creates: in IDE mode a
\* synchronous and an asynchronous client, made before the parent class is
\* called and so also when that call fails; otherwise none
ChatCopilot_handles(c) ==
  IF c.http_client.class = "CopilotHTTPClient"
  THEN << [owner |-> "ChatCopilot", class |-> c.http_client.class, open |-> TRUE],
          [owner |-> "ChatCopilot", class |-> c.http_async_client.class, open |-> TRUE] >>
  ELSE << >>

----------------------------------------------------------------------------
(* copilot_business_adapter.py: ChatCopilotBusiness.__init__.              *)

\* the characters of strip("'\"")
QUOTES == { "'", "\"" }

\* mutant of Strip: only leading characters are removed (lstrip)
Strip_LeadingOnly(s, chars) ==
  LET keep == { i \in 1..Len(s) : s[i] \notin chars }
  IN  IF keep = {} THEN << >>
      ELSE SubSeq(s, CHOOSE i \in keep : \A j \in keep : i <= j, Len(s))

\* s.strip(chars): s without its leading and trailing characters of chars
Strip(s, chars) ==
  LET keep == { i \in 1..Len(s) : s[i] \notin chars }
  IN  IF keep = {} THEN << >>
      ELSE SubSeq(s, CHOOSE i \in keep : \A j \in keep : i <= j,
                     CHOOSE i \in keep : \A j \in keep : j <= i)

\* mutant of EnvBusinessToken: the session variable is tried first
EnvBusinessToken_SessionFirst(env) ==
  IF Truthy(env["GITHUB_COPILOT_SESSION_TOKEN"])
  THEN env["GITHUB_COPILOT_SESSION_TOKEN"]
  ELSE env["GITHUB_COPILOT_BUSINESS_TOKEN"]

\* os.getenv("GITHUB_COPILOT_BUSINESS_TOKEN") or
\* os.getenv("GITHUB_COPILOT_SESSION_TOKEN")
EnvBusinessToken(env) ==
  IF Truthy(env["GITHUB_COPILOT_BUSINESS_TOKEN"])
  THEN env["GITHUB_COPILOT_BUSINESS_TOKEN"]
  ELSE env["GITHUB_COPILOT_SESSION_TOKEN"]

\* the token variables that expression reads (`or` stops at the first value that
\* is set and non-empty)
EnvBusinessTokenReads(env) ==
  IF Truthy(env["GITHUB_COPILOT_BUSINESS_TOKEN"])
  THEN {"GITHUB_COPILOT_BUSINESS_TOKEN"}
  ELSE {"GITHUB_COPILOT_BUSINESS_TOKEN", "GITHUB_COPILOT_SESSION_TOKEN"}

\* self.api_key after the lookup and the removal of quotes
ResolveBusinessKey(api_key, env) ==
  LET key == IF ~Truthy(api_key) THEN EnvBusinessToken(env) ELSE api_key
  IN  IF Truthy(key) THEN Strip(key, QUOTES) ELSE key

\* ChatCopilotBusiness.__init__: the api_key argument, the credential kept, and
\* how the construction ends; the identifiers and the HTTP client exist only when
\* it succeeds. machine_id and session_id are what os.getenv(..., str(uuid.uuid4()))
\* returns. _validate_and_log_token only logs: the credentials tried carry no
\* exp= field for it to parse.
ChatCopilotBusiness_init(api_key, machine_id, session_id, env) ==
  LET key   == ResolveBusinessKey(api_key, env)
      reads == IF ~Truthy(api_key) THEN EnvBusinessTokenReads(env) ELSE {}
  IN  IF ~Truthy(key)
      THEN [ status    |-> "failed",
             error     |-> "ValueError: GITHUB_COPILOT_BUSINESS_TOKEN or GITHUB_COPILOT_SESSION_TOKEN",
             args      |-> [api_key |-> api_key],
             api_key   |-> key,
             env_reads |-> reads ]
      ELSE [ status            |-> "ok",
             args              |-> [api_key |-> api_key],
             api_key           |-> key,
             env_reads         |-> reads,
             vscode_machine_id |-> machine_id,
             vscode_session_id |-> session_id,
             http_client       |-> "open" ]

\* the HTTP client handle a ChatCopilotBusiness construction creates: one
\* httpx.Client, and none when the credential is missing
ChatCopilotBusiness_handles(b) ==
  IF b.status = "ok"
  THEN << [owner |-> "ChatCopilotBusiness", class |-> "httpx.Client", open |-> TRUE] >>
  ELSE << >>

----------------------------------------------------------------------------
(* copilot_business_adapter.py: ChatCopilotBusiness._convert_messages.     *)

\* A message is [type, content]; a content is a string, [t |-> "str", v |-> its
\* characters], or a list of strings, [t |-> "list", v |-> its items].
StrContent(chars) == [t |-> "str", v |-> chars]

ListContent(items) == [t |-> "list", v |-> items]

RECURSIVE ReprItems(_)
\* the items of repr(list) from the first one on: 'a', 'b'
ReprItems(items) ==
  IF items = << >> THEN << >>
  ELSE <<"'">> \o Head(items) \o <<"'">>
       \o (IF Len(items) > 1 THEN <<",", " ">> ELSE << >>)
       \o ReprItems(Tail(items))

\* str(content): a string is itself, a list becomes its repr
PyStr(content) ==
  IF content.t = "str" THEN content
  ELSE StrContent(<<"[">> \o ReprItems(content.v) \o <<"]">>)

\* mutant of ConvertOne: the isinstance chain falls through to "user" for a
\* SystemMessage
ConvertOne_NoSystem(msg) ==
  IF msg.type = "HumanMessage" THEN [role |-> "user", content |-> msg.content]
  ELSE IF msg.type = "AIMessage" THEN [role |-> "assistant", content |-> msg.content]
  ELSE [role |-> "user", content |-> PyStr(msg.content)]

\* the body of the loop: the entry appended for msg
ConvertOne(msg) ==
  IF msg.type = "HumanMessage" THEN [role |-> "user", content |-> msg.content]
  ELSE IF msg.type = "AIMessage" THEN [role |-> "assistant", content |-> msg.content]
  ELSE IF msg.type = "SystemMessage" THEN [role |-> "system", content |-> msg.content]
  ELSE [role |-> "user", content |-> PyStr(msg.content)]

RECURSIVE ConvertLoop(_, _)
\* the loop over what is left of the messages, result being the list built so far
ConvertLoop(rest, result) ==
  IF rest = << >> THEN result
  ELSE ConvertLoop(Tail(rest), Append(result, ConvertOne(Head(rest))))

_convert_messages(msgs) == ConvertLoop(msgs, << >>)

----------------------------------------------------------------------------
(* The state before any construction or call.                              *)

NotConstructed == [status |-> "none"]

NotRun == [done |-> FALSE, result |-> << >>]

NoRequest == [sent |-> FALSE]

NoResponse == [received |-> FALSE]

NoOutcome == [kind |-> "none"]

NoFile == [exists |-> FALSE]

ScriptNotStarted == [pc |-> "not started"]

\* no _generate call has been made
NoCalls ==
  /\ calls = 0
  /\ posts = 0
  /\ request = NoRequest
  /\ response = NoResponse
  /\ outcome = NoOutcome
  /\ sent_auth = {}

\* the helper script is not run
NoScript ==
  /\ script = ScriptNotStarted
  /\ env_file = NoFile

NoClient == [constructed |-> FALSE]

NoBuild == [done |-> FALSE]

\* no HTTP client is made on its own
NoClientUse ==
  /\ client = NoClient
  /\ built = NoBuild

\* no ChatCopilotBusiness instances are kept side by side
NoInstances ==
  /\ instances = << >>
  /\ caller = 0
  /\ sent_ids = << >>

EnvNames ==
  { "GITHUB_COPILOT_TOKEN", "GITHUB_COPILOT_SESSION_TOKEN",
    "GITHUB_COPILOT_BUSINESS_TOKEN" }

\* a stored IDE token that is long enough to be taken, and one that is not
IDE_TOKEN_LONG == [i \in 1..(MIN_IDE_TOKEN_LEN + 1) |-> "t"]

IDE_TOKEN_SHORT == <<"t","t">>

\* contents of the IDE configuration files tried
IdeConfigs == { << >>, << IDE_TOKEN_SHORT, IDE_TOKEN_LONG >> }

\* environments tried for ChatCopilot: each token variable unset or set
CopilotEnvs ==
  { [ GITHUB_COPILOT_TOKEN          |-> t,
      GITHUB_COPILOT_SESSION_TOKEN  |-> st,
      GITHUB_COPILOT_BUSINESS_TOKEN |-> None ] :
      t \in {None, <<"g">>}, st \in {None, <<"s">>} }

----------------------------------------------------------------------------
(* Specification of ChatCopilot constructions.                             *)

Init ==
  /\ environ \in CopilotEnvs
  /\ ide_files \in IdeConfigs
  /\ cop = NotConstructed
  /\ biz = NotConstructed
  /\ messages = << >>
  /\ encoded = NotRun
  /\ NoCalls
  /\ handles = << >>
  /\ NoScript
  /\ NoClientUse
  /\ NoInstances

\* ChatCopilot(model, api_key, base_url, temperature, max_tokens, use_chat_api):
\* one constructor call per behaviour, with any arguments.
NewChatCopilot ==
  /\ cop = NotConstructed
  /\ \E model \in Models, api_key \in ApiKeyArgs, base_url \in BaseUrls,
        temperature \in Temperatures, max_tokens \in MaxTokensArgs,
        use_chat_api \in BOOLEAN, session_id \in Uuids, machine_id \in Uuids :
       cop' = ChatCopilot_init(model, api_key, base_url, temperature, max_tokens,
                               use_chat_api, session_id, machine_id, environ)
  /\ handles' = handles \o ChatCopilot_handles(cop')
  /\ UNCHANGED <<environ, ide_files, biz, messages, encoded>>
  /\ UNCHANGED <<generate_vars, script_vars, client_vars, instance_vars>>

Next == NewChatCopilot

Spec == Init /\ [][Next]_vars

----------------------------------------------------------------------------
(* Specification of ChatCopilotBusiness constructions.                     *)

RECURSIVE StringsUpTo(_, _)
\* the strings over alphabet of length n at most
StringsUpTo(alphabet, n) ==
  IF n = 0 THEN { << >> }
  ELSE LET shorter == StringsUpTo(alphabet, n - 1)
       IN  shorter \cup { Append(s, c) : s \in shorter, c \in alphabet }

\* values of a token variable tried: unset, or a text of quotes and letters
BusinessEnvValues == {None} \cup StringsUpTo({"'", "\"", "a"}, MaxTokLen)

\* environments tried for ChatCopilotBusiness
BusinessEnvs ==
  { [ GITHUB_COPILOT_TOKEN          |-> None,
      GITHUB_COPILOT_SESSION_TOKEN  |-> st,
      GITHUB_COPILOT_BUSINESS_TOKEN |-> bt ] :
      st \in BusinessEnvValues, bt \in BusinessEnvValues }

\* api_key arguments tried for ChatCopilotBusiness
BusinessApiKeyArgs ==
  { None, << >>, <<"k">>, <<"'","k","'">>, <<"\"","k">>, <<"'","\"">> }

InitBusiness ==
  /\ environ \in BusinessEnvs
  /\ ide_files = << >>
  /\ cop = NotConstructed
  /\ biz = NotConstructed
  /\ messages = << >>
  /\ encoded = NotRun
  /\ NoCalls
  /\ handles = << >>
  /\ NoScript
  /\ NoClientUse
  /\ NoInstances

\* ChatCopilotBusiness(api_key=...): one constructor call per behaviour
NewChatCopilotBusiness ==
  /\ biz = NotConstructed
  /\ \E api_key \in BusinessApiKeyArgs, machine_id \in Uuids, session_id \in Uuids :
       biz' = ChatCopilotBusiness_init(api_key, machine_id, session_id, environ)
  /\ handles' = handles \o ChatCopilotBusiness_handles(biz')
  /\ UNCHANGED <<environ, ide_files, cop, messages, encoded>>
  /\ UNCHANGED <<generate_vars, script_vars, client_vars, instance_vars>>

NextBusiness == NewChatCopilotBusiness

SpecBusiness == InitBusiness /\ [][NextBusiness]_vars

----------------------------------------------------------------------------
(* Specification of _convert_messages calls.                               *)

MessageTypes ==
  { "HumanMessage", "AIMessage", "SystemMessage", "ToolMessage", "ChatMessage" }

\* contents tried: a text, the empty text, a list of one text
Contents ==
  { StrContent(<<"h","i">>), StrContent(<< >>), ListContent(<< <<"h","i">> >>) }

Messages == [type : MessageTypes, content : Contents]

RECURSIVE ListsUpTo(_, _)
\* the lists over items of length n at most
ListsUpTo(items, n) ==
  IF n = 0 THEN { << >> }
  ELSE LET shorter == ListsUpTo(items, n - 1)
       IN  shorter \cup { Append(l, x) : l \in shorter, x \in items }

InitCodec ==
  /\ environ = [n \in EnvNames |-> None]
  /\ ide_files = << >>
  /\ cop = NotConstructed
  /\ biz = NotConstructed
  /\ messages \in ListsUpTo(Messages, MaxMsgs)
  /\ encoded = NotRun
  /\ NoCalls
  /\ handles = << >>
  /\ NoScript
  /\ NoClientUse
  /\ NoInstances

\* self._convert_messages(messages)
ConvertMessages ==
  /\ ~encoded.done
  /\ encoded' = [done |-> TRUE, result |-> _convert_messages(messages)]
  /\ UNCHANGED <<environ, ide_files, cop, biz, messages>>
  /\ UNCHANGED <<generate_vars, handles, script_vars, client_vars, instance_vars>>

NextCodec == ConvertMessages

SpecCodec == InitCodec /\ [][NextCodec]_vars

----------------------------------------------------------------------------
(* Claims about ChatCopilot.__init__, checked under Spec.                  *)

\* cop holds a finished constructor call
Constructed == cop.status # "none"

\* cop holds a constructor call that succeeded
ConstructedOk == cop.status = "ok"

\* the caller gave no base_url (None and "" are alike to `if not base_url`)
NoBaseUrlArg == cop.args.base_url = None \/ cop.args.base_url = << >>

\* the model identifier, lower-cased, contains one of the four keywords
MatchesAlternateKeyword(model) ==
  \E kw \in {S_claude, S_gpt_5, S_o1_preview, S_o1_mini} : Contains(kw, Lower(model))

\* the model identifier, lower-cased, contains "gpt-5" or "o1"
MatchesCompletionTokensKeyword(model) ==
  \E kw \in {S_gpt_5, S_o1} : Contains(kw, Lower(model))

\* what the installed client makes of the header "Bearer <t>"
SentAuthorization(c, t) ==
  build_request(c.http_client.use_github_bearer,
                [authorization |-> S_Bearer \o t])["authorization"]

\* the effects of the Chat Completions profile: IDE headers, the custom prefix,
\* the caller's temperature
ChatProfile(c) ==
  /\ DOMAIN c.default_headers # {}
  /\ c.http_client.class = "CopilotHTTPClient"
  /\ SentAuthorization(c, <<"k">>) = S_GitHub_Bearer \o <<"k">>
  /\ c.temperature = c.args.temperature

\* the effects of the Inference profile: no extra headers, the plain bearer,
\* temperature 1.0
InferenceProfile(c) ==
  /\ DOMAIN c.default_headers = {}
  /\ c.http_client.class = "default"
  /\ SentAuthorization(c, <<"k">>) = S_Bearer \o <<"k">>
  /\ c.temperature = TEMP_ONE

\* C1: without a base_url argument, a model identifier that contains (lower-cased)
\* "claude", "gpt-5", "o1-preview" or "o1-mini" gets the alternate host and a client
\* that sends "GitHub-Bearer <token>"; any other model identifier, use_chat_api not
\* set, gets the default host and no client with the custom prefix.
C1_EndpointByModel ==
  (Constructed /\ NoBaseUrlArg) =>
    IF MatchesAlternateKeyword(cop.args.model)
    THEN /\ cop.base_url = ALT_HOST
         /\ cop.http_client.class = "CopilotHTTPClient"
         /\ \A t \in {<<"k">>, <<"s">>, <<"g">>} :
              SentAuthorization(cop, t) = S_GitHub_Bearer \o t
    ELSE ~cop.args.use_chat_api =>
         /\ cop.base_url = DEFAULT_HOST
         /\ cop.http_client.class = "default"
         /\ \A t \in {<<"k">>, <<"s">>, <<"g">>} :
              SentAuthorization(cop, t) = S_Bearer \o t

\* C1 witness: "Claude-3.5", no base_url, use_chat_api not set: the alternate host
\* and the custom prefix.
C1_Witness ==
  /\ cop.status = "ok"
  /\ cop.args.base_url = None
  /\ cop.args.model = M_Claude_3_5
  /\ ~cop.args.use_chat_api
  /\ cop.base_url = ALT_HOST
  /\ SentAuthorization(cop, cop.api_key) = S_GitHub_Bearer \o cop.api_key

\* C2: whenever the base URL handed on is the default host, the temperature handed
\* on is 1.0, whatever temperature the caller gave.
C2_TemperatureForced ==
  (Constructed /\ cop.base_url = DEFAULT_HOST) => cop.temperature = TEMP_ONE

\* C2 witness: a construction that succeeds with temperature 0 requested on the
\* default host and 1.0 handed on.
C2_Witness ==
  /\ cop.status = "ok"
  /\ cop.args.temperature = 0
  /\ cop.base_url = DEFAULT_HOST
  /\ cop.temperature = TEMP_ONE

\* C3 as claimed: every construction, whatever base_url and use_chat_api are, has
\* the effects of exactly one profile.
C3_ExactlyOneProfileAlways ==
  ConstructedOk => (ChatProfile(cop) \/ InferenceProfile(cop))

\* C3 amended: without a base_url argument exactly one profile applies, the Chat
\* Completions one exactly when use_chat_api is set or the model matches a
\* keyword; with a base_url argument the IDE headers and custom prefix are
\* installed exactly when use_chat_api is set or the URL contains
\* "api.githubcopilot.com", and the temperature is forced to 1.0 exactly when the
\* lower-cased URL contains "azure.com".
C3_ExactlyOneProfileWithoutBaseUrl ==
  Constructed =>
    IF NoBaseUrlArg
    THEN /\ ChatProfile(cop) \/ InferenceProfile(cop)
         /\ ~(ChatProfile(cop) /\ InferenceProfile(cop))
         /\ ChatProfile(cop) <=>
              (cop.args.use_chat_api \/ MatchesAlternateKeyword(cop.args.model))
    ELSE /\ (DOMAIN cop.default_headers # {}) <=>
              (cop.args.use_chat_api
                 \/ Contains(S_api_githubcopilot_com, cop.args.base_url))
         /\ (cop.http_client.class = "CopilotHTTPClient") <=>
              (DOMAIN cop.default_headers # {})
         /\ cop.temperature =
              IF Contains(S_azure_com, Lower(cop.args.base_url))
              THEN TEMP_ONE ELSE cop.args.temperature

\* C3 witness: use_chat_api forced for "gpt-4o" without base_url: the Chat
\* Completions profile alone, temperature 0 kept.
C3_Witness ==
  /\ cop.status = "ok"
  /\ cop.args.base_url = None
  /\ cop.args.use_chat_api
  /\ cop.args.model = M_gpt_4o
  /\ cop.args.temperature = 0
  /\ ChatProfile(cop)
  /\ ~InferenceProfile(cop)

\* C4: a non-empty base_url argument is handed on unchanged for every model, and
\* the model name plays no part in the choice of the Chat Completions profile.
C4_ExplicitBaseUrlVerbatim ==
  (Constructed /\ ~NoBaseUrlArg) =>
    /\ cop.base_url = cop.args.base_url
    /\ (DOMAIN cop.default_headers # {}) <=>
         (cop.args.use_chat_api
            \/ Contains(S_api_githubcopilot_com, cop.args.base_url))
    /\ (cop.http_client.class = "CopilotHTTPClient") <=>
         (cop.args.use_chat_api
            \/ Contains(S_api_githubcopilot_com, cop.args.base_url))

\* C4 witness: "claude-sonnet-4.5" with an unrelated base_url and use_chat_api not
\* set: the URL is kept and nothing of the Chat Completions profile is installed.
C4_Witness ==
  /\ cop.status = "ok"
  /\ cop.args.model = M_claude_sonnet
  /\ cop.args.base_url = URL_CUSTOM
  /\ ~cop.args.use_chat_api
  /\ cop.base_url = URL_CUSTOM
  /\ DOMAIN cop.default_headers = {}
  /\ cop.http_client.class = "default"

\* C5 as claimed: for a model containing "gpt-5" or "o1" requested with
\* max_tokens = N, the limit is handed on as max_completion_tokens = N and not as
\* max_tokens.
C5_CompletionTokensKeepValue ==
  (/\ ConstructedOk
   /\ MatchesCompletionTokensKeyword(cop.args.model)
   /\ cop.args.max_tokens # NONE_INT) =>
    /\ cop.max_tokens = NONE_INT
    /\ "max_completion_tokens" \in DOMAIN cop.model_kwargs
    /\ cop.model_kwargs["max_completion_tokens"] = cop.args.max_tokens

\* C6 as claimed: max_completion_tokens is used only under the Chat Completions
\* profile, and max_tokens whenever the Inference profile is selected.
C6_FieldNameByProfile ==
  ConstructedOk =>
    /\ ("max_completion_tokens" \in DOMAIN cop.model_kwargs) =>
         (ChatProfile(cop) /\ MatchesCompletionTokensKeyword(cop.args.model))
    /\ (cop.base_url = DEFAULT_HOST /\ InferenceProfile(cop)) =>
         /\ "max_completion_tokens" \notin DOMAIN cop.model_kwargs
         /\ cop.max_tokens = cop.args.max_tokens

\* C6 amended: the field name follows the model identifier alone, under either
\* profile: max_completion_tokens is set (and max_tokens cleared) exactly when the
\* lower-cased model contains "gpt-5" or "o1"; otherwise the caller's max_tokens is
\* handed on and no max_completion_tokens is added.
C6_FieldNameByModel ==
  Constructed =>
    IF MatchesCompletionTokensKeyword(cop.args.model)
    THEN /\ "max_completion_tokens" \in DOMAIN cop.model_kwargs
         /\ cop.max_tokens = NONE_INT
    ELSE /\ DOMAIN cop.model_kwargs = {}
         /\ cop.max_tokens = cop.args.max_tokens

\* C6 witness: "o1" without base_url: the Inference profile on the default host,
\* and max_completion_tokens set all the same.
C6_Witness ==
  /\ cop.status = "ok"
  /\ cop.args.model = M_o1
  /\ cop.args.base_url = None
  /\ ~cop.args.use_chat_api
  /\ cop.base_url = DEFAULT_HOST
  /\ InferenceProfile(cop)
  /\ "max_completion_tokens" \in DOMAIN cop.model_kwargs
  /\ cop.max_tokens = NONE_INT

\* C9 as claimed: with no explicit credential and no token variable set, the
\* credential is the token the scan of the IDE configuration files finds, and the
\* construction fails only when the scan finds nothing.
C9_IdeScanFallback ==
  (/\ Constructed
   /\ ~Truthy(cop.args.api_key)
   /\ environ["GITHUB_COPILOT_TOKEN"] = None
   /\ environ["GITHUB_COPILOT_SESSION_TOKEN"] = None) =>
    IF get_copilot_token_from_ide(ide_files) = None
    THEN cop.status = "failed"
    ELSE cop.status = "ok" /\ cop.api_key = get_copilot_token_from_ide(ide_files)

----------------------------------------------------------------------------
(* Claims about ChatCopilotBusiness.__init__, checked under SpecBusiness.  *)

\* a value of a token variable that yields nothing: unset, empty, or quote
\* characters only
YieldsNothing(v) ==
  v = None \/ \A i \in 1..Len(v) : v[i] \in QUOTES

\* C7: a construction of ChatCopilotBusiness that succeeds has a non-empty api_key
\* with no quote character at either end; with no api_key argument and neither
\* token variable yielding a non-empty value (unset, empty, or empty once the
\* quotes are stripped) it fails with an error naming both variables.
C7_NeverEmptyCredential ==
  biz.status # "none" =>
    /\ biz.status = "ok" =>
         /\ biz.api_key # None
         /\ Len(biz.api_key) > 0
         /\ biz.api_key[1] \notin QUOTES
         /\ biz.api_key[Len(biz.api_key)] \notin QUOTES
    /\ (/\ ~Truthy(biz.args.api_key)
        /\ YieldsNothing(environ["GITHUB_COPILOT_BUSINESS_TOKEN"])
        /\ YieldsNothing(environ["GITHUB_COPILOT_SESSION_TOKEN"])) =>
         /\ biz.status = "failed"
         /\ biz.error =
              "ValueError: GITHUB_COPILOT_BUSINESS_TOKEN or GITHUB_COPILOT_SESSION_TOKEN"

\* C7 witness: the business variable holds 'a' in quotes and no api_key is given:
\* the construction succeeds with the credential a.
C7_Witness ==
  /\ biz.status = "ok"
  /\ biz.args.api_key = None
  /\ environ["GITHUB_COPILOT_BUSINESS_TOKEN"] = <<"'","a","'">>
  /\ biz.api_key = <<"a">>

\* C8: an api_key argument wins and no token variable is read, so the credential
\* is the same whatever the environment holds; otherwise the credential comes from
\* GITHUB_COPILOT_BUSINESS_TOKEN when that is set and non-empty, and only otherwise
\* from GITHUB_COPILOT_SESSION_TOKEN.
C8_CredentialPriority ==
  biz.status # "none" =>
    IF Truthy(biz.args.api_key)
    THEN /\ biz.env_reads = {}
         /\ biz.api_key = Strip(biz.args.api_key, QUOTES)
    ELSE IF Truthy(environ["GITHUB_COPILOT_BUSINESS_TOKEN"])
    THEN /\ biz.api_key = Strip(environ["GITHUB_COPILOT_BUSINESS_TOKEN"], QUOTES)
         /\ "GITHUB_COPILOT_SESSION_TOKEN" \notin biz.env_reads
    ELSE IF Truthy(environ["GITHUB_COPILOT_SESSION_TOKEN"])
    THEN biz.api_key = Strip(environ["GITHUB_COPILOT_SESSION_TOKEN"], QUOTES)
    ELSE biz.status = "failed"

\* C8 witness: both token variables are set and differ, no api_key is given: the
\* business variable's value is the credential.
C8_Witness ==
  /\ biz.status = "ok"
  /\ biz.args.api_key = None
  /\ environ["GITHUB_COPILOT_BUSINESS_TOKEN"] = <<"a">>
  /\ environ["GITHUB_COPILOT_SESSION_TOKEN"] = <<"a","a">>
  /\ biz.api_key = <<"a">>

----------------------------------------------------------------------------
(* Claims about _convert_messages, checked under SpecCodec.                *)

\* the role the claim gives a message type
ExpectedRole(type) ==
  CASE type = "HumanMessage"  -> "user"
    [] type = "AIMessage"     -> "assistant"
    [] type = "SystemMessage" -> "system"
    [] OTHER                  -> "user"

SameContent(a, b) == a.t = b.t /\ a.v = b.v

\* C10 as claimed: the result has the length of the input, and its i-th entry has
\* the role of the i-th message's type and the i-th message's own content.
C10_RolesAndContentPreserved ==
  encoded.done =>
    /\ Len(encoded.result) = Len(messages)
    /\ \A i \in 1..Len(messages) :
         /\ encoded.result[i].role = ExpectedRole(messages[i].type)
         /\ SameContent(encoded.result[i].content, messages[i].content)

\* C10 amended: length, order and roles as claimed; the content is the original
\* content for a human, AI or system message and str(content) for any other
\* message type, which is the original content when that is a string.
C10_RolesPreservedContentStringified ==
  encoded.done =>
    /\ Len(encoded.result) = Len(messages)
    /\ \A i \in 1..Len(messages) :
         /\ encoded.result[i].role = ExpectedRole(messages[i].type)
         /\ IF messages[i].type \in {"HumanMessage", "AIMessage", "SystemMessage"}
               \/ messages[i].content.t = "str"
            THEN SameContent(encoded.result[i].content, messages[i].content)
            ELSE /\ encoded.result[i].content.t = "str"
                 /\ SameContent(encoded.result[i].content, PyStr(messages[i].content))

\* C10 witness: a system message followed by a tool message whose content is a
\* list: two entries, system then user, the second with the list's string form.
C10_Witness ==
  /\ encoded.done
  /\ Len(messages) = 2
  /\ messages[1].type = "SystemMessage"
  /\ messages[2] = [type |-> "ToolMessage", content |-> ListContent(<< <<"h","i">> >>)]
  /\ encoded.result[1] = [role |-> "system", content |-> messages[1].content]
  /\ encoded.result[2].role = "user"
  /\ encoded.result[2].content.v = <<"[","'","h","i","'","]">>

----------------------------------------------------------------------------
(* copilot_business_adapter.py: the fields of a ChatCopilotBusiness.       *)

BUSINESS_HOST ==
  <<"h","t","t","p","s",":","/","/","a","p","i",".","b","u","s","i","n","e","s","s",".","g","i","t","h","u","b","c","o","p","i","l","o","t",".","c","o","m">>

S_chat_completions ==
  <<"/","c","h","a","t","/","c","o","m","p","l","e","t","i","o","n","s">>

\* the default of the timeout field, in seconds
DEFAULT_TIMEOUT == 120

\* a ChatCopilotBusiness after ChatCopilotBusiness(model=..., temperature=...,
\* max_tokens=..., api_key=...): the declared fields next to what __init__ sets.
\* handle is the place of the new httpx.Client among the handles.
ChatCopilotBusiness_new(model, temperature, max_tokens, api_key, machine_id, session_id, env, handle) ==
  LET init == ChatCopilotBusiness_init(api_key, machine_id, session_id, env)
  IN  IF init.status = "ok"
      THEN [ model              |-> model,
             temperature        |-> temperature,
             max_tokens         |-> max_tokens,
             timeout            |-> DEFAULT_TIMEOUT,
             base_url           |-> BUSINESS_HOST,
             http_client_handle |-> handle ] @@ init
      ELSE init

----------------------------------------------------------------------------
(* copilot_business_adapter.py: ChatCopilotBusiness._build_headers.        *)

\* the characters str.strip() removes
WHITESPACE == { " ", "\t", "\n", "\r" }

\* os.getenv(name, default)
Getenv(env, name, default) ==
  IF name \in DOMAIN env /\ env[name] # None THEN env[name] ELSE default

\* mutant of AuthorizationValue: the token is looked up again in the environment
AuthorizationValue_FromEnv(api_key, env) ==
  LET token == Strip(ResolveBusinessKey(None, env), WHITESPACE)
  IN  IF ~StartsWith(Lower(token), Lower(S_Bearer)) THEN S_Bearer \o token ELSE token

\* the authorization header: self.api_key without surrounding whitespace, with
\* "Bearer " put in front unless it starts with it already (in any case); env is
\* os.environ, which these lines do not consult
AuthorizationValue(api_key, env) ==
  LET token == Strip(api_key, WHITESPACE)
  IN  IF ~StartsWith(Lower(token), Lower(S_Bearer)) THEN S_Bearer \o token ELSE token

\* a _build_headers that looks the machine identifier up in the environment at
\* every call
_build_headers_MachineIdPerCall(self, env, interaction_id, request_id) ==
  [ h \in { "authorization", "content-type", "accept", "copilot-integration-id",
            "editor-plugin-version", "editor-version", "openai-intent",
            "user-agent", "vscode-machineid", "vscode-sessionid",
            "x-github-api-version", "x-initiator", "x-interaction-id",
            "x-interaction-type", "x-request-id" } |->
      CASE h = "authorization"          -> AuthorizationValue(self.api_key, env)
        [] h = "content-type"           -> "application/json"
        [] h = "accept"                 -> "application/json"
        [] h = "copilot-integration-id" -> Getenv(env, "COPILOT_INTEGRATION_ID", "vscode-chat")
        [] h = "editor-plugin-version"  -> Getenv(env, "COPILOT_EDITOR_PLUGIN_VERSION", "copilot-chat/0.33.1")
        [] h = "editor-version"         -> Getenv(env, "COPILOT_EDITOR_VERSION", "vscode/1.106.0")
        [] h = "openai-intent"          -> "conversation-panel"
        [] h = "user-agent"             -> Getenv(env, "COPILOT_USER_AGENT", "GitHubCopilotChat/0.33.1")
        [] h = "vscode-machineid"       -> Getenv(env, "COPILOT_VSCODE_MACHINEID", self.vscode_machine_id)
        [] h = "vscode-sessionid"       -> self.vscode_session_id
        [] h = "x-github-api-version"   -> Getenv(env, "COPILOT_API_VERSION", "2025-10-01")
        [] h = "x-initiator"            -> "user"
        [] h = "x-interaction-id"       -> interaction_id
        [] h = "x-interaction-type"     -> "conversation-panel"
        [] h = "x-request-id"           -> request_id ]

\* self._build_headers(); interaction_id and request_id are the two fresh
\* str(uuid.uuid4())
_build_headers(self, env, interaction_id, request_id) ==
  [ h \in { "authorization", "content-type", "accept", "copilot-integration-id",
            "editor-plugin-version", "editor-version", "openai-intent",
            "user-agent", "vscode-machineid", "vscode-sessionid",
            "x-github-api-version", "x-initiator", "x-interaction-id",
            "x-interaction-type", "x-request-id" } |->
      CASE h = "authorization"          -> AuthorizationValue(self.api_key, env)
        [] h = "content-type"           -> "application/json"
        [] h = "accept"                 -> "application/json"
        [] h = "copilot-integration-id" -> Getenv(env, "COPILOT_INTEGRATION_ID", "vscode-chat")
        [] h = "editor-plugin-version"  -> Getenv(env, "COPILOT_EDITOR_PLUGIN_VERSION", "copilot-chat/0.33.1")
        [] h = "editor-version"         -> Getenv(env, "COPILOT_EDITOR_VERSION", "vscode/1.106.0")
        [] h = "openai-intent"          -> "conversation-panel"
        [] h = "user-agent"             -> Getenv(env, "COPILOT_USER_AGENT", "GitHubCopilotChat/0.33.1")
        [] h = "vscode-machineid"       -> self.vscode_machine_id
        [] h = "vscode-sessionid"       -> self.vscode_session_id
        [] h = "x-github-api-version"   -> Getenv(env, "COPILOT_API_VERSION", "2025-10-01")
        [] h = "x-initiator"            -> "user"
        [] h = "x-interaction-id"       -> interaction_id
        [] h = "x-interaction-type"     -> "conversation-panel"
        [] h = "x-request-id"           -> request_id ]

----------------------------------------------------------------------------
(* copilot_business_adapter.py: ChatCopilotBusiness._generate.             *)

\* top_p = 1.0, counted in halves like the temperatures
TOP_P_ONE == 2

\* the limit sent when self.max_tokens is None or 0
DEFAULT_MAX_TOKENS == 4096

\* the lowest status code that is an error
HTTP_ERROR_STATUS == 400

\* the number of characters of the response text kept in the error message
ERROR_TEXT_LIMIT == 500

\* the body before the caller's keyword arguments are merged in
RequestBody(self, msgs) ==
  [ model       |-> self.model,
    messages    |-> _convert_messages(msgs),
    temperature |-> self.temperature,
    top_p       |-> TOP_P_ONE,
    n           |-> 1,
    stream      |-> FALSE,
    max_tokens  |-> IF self.max_tokens = NONE_INT \/ self.max_tokens = 0
                    THEN DEFAULT_MAX_TOKENS ELSE self.max_tokens ]

\* body.update(kwargs): the keys of kwargs are added, or replace the body's
DictUpdate(body, kwargs) == kwargs @@ body

\* JSON values of a response body: null, a string, a list, an object
JNull == [k |-> "null"]

JStr(s) == [k |-> "str", v |-> s]

JList(items) == [k |-> "list", v |-> items]

JDict(fields) == [k |-> "dict", v |-> fields]

\* the empty JSON object
JEmpty == JDict(<< >>)

\* str(data): the text Python prints for the dict, not the dict
PyStrOfDict(data) == [k |-> "str(dict)", v |-> data]

\* bool(v) of a JSON value
JTruthy(v) ==
  CASE v.k = "null"      -> FALSE
    [] v.k = "str"       -> v.v # ""
    [] v.k = "list"      -> Len(v.v) > 0
    [] v.k = "dict"      -> DOMAIN v.v # {}
    [] v.k = "str(dict)" -> TRUE

\* an expression that gave a value, and one that raised
Returned(v) == [raised |-> "", value |-> v]

Raised(e) == [raised |-> e, value |-> JNull]

\* v.get(key, default)
DictGet(v, key, default) ==
  IF v.k = "dict"
  THEN Returned(IF key \in DOMAIN v.v THEN v.v[key] ELSE default)
  ELSE Raised("AttributeError")

\* v[0]
FirstItem(v) ==
  CASE v.k = "list" -> IF Len(v.v) > 0 THEN Returned(v.v[1]) ELSE Raised("IndexError")
    [] v.k = "dict" -> Raised("KeyError")
    [] OTHER        -> Raised("TypeError")

\* data.get('choices', [{}])[0].get('message', {}).get('content', '')
ChoiceContent(data) ==
  LET choices == DictGet(data, "choices", JList(<< JEmpty >>))
  IN  IF choices.raised # "" THEN choices
      ELSE LET first == FirstItem(choices.value)
           IN  IF first.raised # "" THEN first
               ELSE LET message == DictGet(first.value, "message", JEmpty)
                    IN  IF message.raised # "" THEN message
                        ELSE DictGet(message.value, "content", JStr(""))

\* data.get('output_text') or str(data)
OutputTextOrStr(data) ==
  LET output_text == DictGet(data, "output_text", JNull).value
  IN  IF JTruthy(output_text) THEN output_text ELSE PyStrOfDict(data)

\* ChatResult(generations=[ChatGeneration(message=AIMessage(content=content))])
ChatResult(content) ==
  [ kind        |-> "ChatResult",
    generations |-> << [message |-> [type |-> "AIMessage", content |-> content]] >> ]

\* an exception leaving _generate
RaisedOutcome(exception, message) ==
  [kind |-> "raised", exception |-> exception, message |-> message]

\* the lines after the status check: response.json() and the extraction of the
\* text; whatever they raise is logged and raised again
DecodeResponse(resp) ==
  IF resp.json.k = "invalid" THEN RaisedOutcome("JSONDecodeError", << >>)
  ELSE IF resp.json.k # "dict" THEN RaisedOutcome("AttributeError", << >>)
  ELSE LET content == ChoiceContent(resp.json)
       IN  IF content.raised # "" THEN RaisedOutcome(content.raised, << >>)
           ELSE IF ~JTruthy(content.value)
                THEN ChatResult(OutputTextOrStr(resp.json))
                ELSE ChatResult(content.value)

\* mutant of IsHttpError: status 400 is let through
IsHttpError_Above(status_code) == status_code > HTTP_ERROR_STATUS

\* response.status_code >= 400
IsHttpError(status_code) == status_code >= HTTP_ERROR_STATUS

\* response.text[:500]
ErrorText(text) ==
  SubSeq(text, 1, IF Len(text) < ERROR_TEXT_LIMIT THEN Len(text) ELSE ERROR_TEXT_LIMIT)

\* the advice that ends the error message, "please check whether the token has
\* expired or whether its format is right" in the source's language
ADVICE_CHECK_TOKEN == "check whether the token has expired or its format is right"

\* the advice ChatCopilot.__init__ writes to the log under the Chat Completions
\* profile, "on a 403 error, better use gpt-4o or another model of plan 1"
ADVICE_USE_DEFAULT_ENDPOINT_MODEL == "on a 403 error use gpt-4o or another model of plan 1"

\* mutant of UpstreamErrorMessage: the advice is the one about the model family
UpstreamErrorMessage_OtherAdvice(status_code, error_text) ==
  << "Copilot Business API request failed ", status_code, ": ", error_text,
     "\n", ADVICE_USE_DEFAULT_ENDPOINT_MODEL >>

\* the text of the RuntimeError, part by part:
\* f"Copilot Business API <request failed> {status_code}: {error_text}\n<advice>"
UpstreamErrorMessage(status_code, error_text) ==
  << "Copilot Business API request failed ", status_code, ": ", error_text,
     "\n", ADVICE_CHECK_TOKEN >>

\* what _generate does with what the client's post gave: an exception of the
\* client passes through, a status >= 400 raises the RuntimeError, anything else
\* is decoded
HandleResponse(resp) ==
  IF resp.exception # "" THEN RaisedOutcome(resp.exception, << >>)
  ELSE IF IsHttpError(resp.status_code)
       THEN RaisedOutcome("RuntimeError",
                          UpstreamErrorMessage(resp.status_code, ErrorText(resp.text)))
       ELSE DecodeResponse(resp)

\* mutant of PostedRequests: the request is posted again after a failure
PostedRequests_RetryOnFailure(req, resp) ==
  IF resp.exception # "" \/ resp.status_code >= HTTP_ERROR_STATUS
  THEN << req, req >> ELSE << req >>

\* the requests one _generate hands to self._http_client.post: the one of its
\* single post call, whatever comes back
PostedRequests(req, resp) == << req >>

\* self._generate(messages, **kwargs) when the client answers the post with
\* resp: the requests posted and how the call ends
_generate(self, msgs, kwargs, env, interaction_id, request_id, resp) ==
  LET req == [ sent    |-> TRUE,
               client  |-> self.http_client_handle,
               url     |-> self.base_url \o S_chat_completions,
               json    |-> DictUpdate(RequestBody(self, msgs), kwargs),
               headers |-> _build_headers(self, env, interaction_id, request_id) ]
  IN  [ requests |-> PostedRequests(req, resp),
        outcome  |-> HandleResponse(resp) ]

----------------------------------------------------------------------------
(* Specification of _generate calls on one ChatCopilotBusiness.            *)

\* _generate calls made in one behaviour
MaxCalls == 2

HttpResponse(status_code, text, json) ==
  [received |-> TRUE, exception |-> "", status_code |-> status_code,
   text |-> text, json |-> json]

\* self._http_client.post raised instead of returning (no connection, timeout)
ClientException(exception) ==
  [received |-> FALSE, exception |-> exception, status_code |-> 0,
   text |-> << >>, json |-> [k |-> "invalid"]]

\* a choice holding a message with the content given
ChoiceWith(content) == JDict([message |-> JDict([role |-> JStr("assistant"), content |-> content])])

\* response bodies tried, each a JSON object
BodiesTried ==
  << JDict([choices |-> JList(<< ChoiceWith(JStr("hi")) >>), model |-> JStr("gpt-5")]),
     JDict([choices |-> JList(<< ChoiceWith(JStr("hi")) >>), output_text |-> JStr("out")]),
     JDict([choices |-> JList(<< ChoiceWith(JStr("hi")), ChoiceWith(JStr("yo")) >>)]),
     JDict([choices |-> JList(<< ChoiceWith(JStr("")) >>), output_text |-> JStr("out")]),
     JDict([choices |-> JList(<< ChoiceWith(JNull) >>), output_text |-> JStr("out")]),
     JDict([choices |-> JList(<< JDict([message |-> JEmpty]) >>)]),
     JDict([choices |-> JList(<< JDict([message |-> JEmpty]) >>), output_text |-> JStr("out")]),
     JDict([choices |-> JList(<< JEmpty >>), output_text |-> JStr("out")]),
     JDict([output_text |-> JStr("out")]),
     JDict([output_text |-> JStr("")]),
     JEmpty,
     JDict([choices |-> JList(<< >>)]),
     JDict([choices |-> JList(<< >>), output_text |-> JStr("out")]),
     JDict([choices |-> JList(<< JDict([message |-> JNull]) >>)]),
     JDict([choices |-> JNull, output_text |-> JStr("out")]) >>

\* response texts tried with an error status: empty, short, exactly as long as
\* the limit, one character longer
ErrorTextsTried ==
  << << >>, <<"n","o">>, [i \in 1..ERROR_TEXT_LIMIT |-> "x"],
     [i \in 1..(ERROR_TEXT_LIMIT + 1) |-> "x"] >>

\* what the client's post gives back, as tried
ResponsesTried ==
  [i \in 1..Len(BodiesTried) |-> HttpResponse(200, << >>, BodiesTried[i])]
  \o [i \in 1..Len(ErrorTextsTried) |-> HttpResponse(403, ErrorTextsTried[i], [k |-> "invalid"])]
  \o << HttpResponse(HTTP_ERROR_STATUS - 1, << >>, BodiesTried[1]),
        HttpResponse(200, <<"o","k">>, [k |-> "invalid"]),
        HttpResponse(HTTP_ERROR_STATUS, <<"n","o">>, [k |-> "invalid"]),
        HttpResponse(500, <<"n","o">>, JDict([error |-> JStr("no")])),
        ClientException("ConnectError") >>

\* extra keyword arguments tried: none, one for each fixed field of the body, one
\* for a field the body does not have
KwargsTried ==
  << << >>, [stream |-> TRUE], [n |-> 2], [top_p |-> 1], [model |-> M_gpt_4o],
     [tool_choice |-> "auto"] >>

\* message lists tried
MessagesTried ==
  << << >>,
     << [type |-> "SystemMessage", content |-> StrContent(<<"b","e">>)],
        [type |-> "HumanMessage", content |-> StrContent(<<"h","i">>)] >> >>

\* the adapters tried: the temperature and the token limit vary
AdaptersTried ==
  { ChatCopilotBusiness_new(M_gpt_5, f[1], f[2], <<"k">>, "uuid-1", "uuid-2",
                            [n \in EnvNames |-> None], 1) :
      f \in { <<TEMP_ONE, NONE_INT>>, <<0, 500>>, <<TEMP_ONE, 0>> } }

InitGenerate ==
  /\ environ = [n \in EnvNames |-> None]
  /\ ide_files = << >>
  /\ cop = NotConstructed
  /\ biz \in AdaptersTried
  /\ messages = << >>
  /\ encoded = NotRun
  /\ NoCalls
  /\ handles = ChatCopilotBusiness_handles(biz)
  /\ NoScript
  /\ NoClientUse
  /\ NoInstances

\* one call biz._generate(msgs, **kwargs), answered by one of the responses
GenerateWith(msgs_tried, kwargs_tried, responses_tried, ids) ==
  /\ biz.status = "ok"
  /\ calls < MaxCalls
  /\ \E m \in DOMAIN msgs_tried, kw \in DOMAIN kwargs_tried, r \in DOMAIN responses_tried,
        interaction_id \in ids, request_id \in ids :
       LET g == _generate(biz, msgs_tried[m], kwargs_tried[kw], environ,
                          interaction_id, request_id, responses_tried[r])
       IN  /\ messages' = msgs_tried[m]
           /\ encoded' = [done |-> TRUE, result |-> _convert_messages(msgs_tried[m])]
           /\ calls' = calls + 1
           /\ posts' = posts + Len(g.requests)
           /\ request' = g.requests[Len(g.requests)]
           /\ response' = responses_tried[r]
           /\ outcome' = g.outcome
           /\ sent_auth' = sent_auth \cup
                { g.requests[i].headers["authorization"] : i \in DOMAIN g.requests }
  /\ UNCHANGED <<environ, ide_files, cop, biz, handles, script_vars, client_vars, instance_vars>>

Generate == GenerateWith(MessagesTried, KwargsTried, ResponsesTried, {"uuid-3"})

NextGenerate == Generate

SpecGenerate == InitGenerate /\ [][NextGenerate]_vars

----------------------------------------------------------------------------
(* Claims about ChatCopilotBusiness._generate, checked under SpecGenerate. *)

\* a _generate call has been made
Called == calls > 0

\* C11 as claimed: whatever keyword arguments the caller passes, the body posted
\* has stream = false, n = 1 and top_p = 1.0, the adapter's model and temperature,
\* and the encoded messages of the call.
C11_FixedFieldsWhateverKwargs ==
  Called =>
    /\ request.json["stream"] = FALSE
    /\ request.json["n"] = 1
    /\ request.json["top_p"] = TOP_P_ONE
    /\ request.json["model"] = biz.model
    /\ request.json["temperature"] = biz.temperature
    /\ request.json["messages"] = _convert_messages(messages)

\* the last call got a response with a status below 400 and a JSON object as body
SuccessfulJsonObject ==
  /\ Called
  /\ response.received
  /\ response.status_code < 400
  /\ response.json.k = "dict"

\* the content of the first choice's message, null where the choices, the first
\* choice, its message or the content is not there
FirstChoiceContent(data) ==
  IF /\ "choices" \in DOMAIN data.v
     /\ data.v.choices.k = "list"
     /\ Len(data.v.choices.v) > 0
     /\ data.v.choices.v[1].k = "dict"
     /\ "message" \in DOMAIN data.v.choices.v[1].v
     /\ data.v.choices.v[1].v.message.k = "dict"
     /\ "content" \in DOMAIN data.v.choices.v[1].v.message.v
  THEN data.v.choices.v[1].v.message.v.content
  ELSE JNull

\* the text the layered fallbacks name for a response object
LayeredText(data) ==
  IF JTruthy(FirstChoiceContent(data)) THEN FirstChoiceContent(data)
  ELSE IF "output_text" \in DOMAIN data.v /\ JTruthy(data.v.output_text)
       THEN data.v.output_text
       ELSE PyStrOfDict(data)

\* two texts are the same text
SameText(a, b) == a.k = b.k /\ a.v = b.v

\* C12 as claimed: a successful response is decoded to exactly one generation
\* holding one assistant message, whose text is the first choice's message content
\* when present and non-empty, otherwise the top-level output_text when present
\* and non-empty, otherwise the serialization of the whole response object.
C12_LayeredFallbacks ==
  SuccessfulJsonObject =>
    /\ outcome.kind = "ChatResult"
    /\ Len(outcome.generations) = 1
    /\ outcome.generations[1].message.type = "AIMessage"
    /\ SameText(outcome.generations[1].message.content, LayeredText(response.json))

\* the optional fields of a response object are there or are missing or empty in
\* one of the ways named: no choices, an empty list of choices, a first choice
\* without message, a message without content or with an empty one
OptionalFieldsMissingOrEmpty(data) ==
  \/ "choices" \notin DOMAIN data.v
  \/ /\ data.v.choices.k = "list"
     /\ \/ Len(data.v.choices.v) = 0
        \/ /\ data.v.choices.v[1].k = "dict"
           /\ \/ "message" \notin DOMAIN data.v.choices.v[1].v
              \/ /\ data.v.choices.v[1].v.message.k = "dict"
                 /\ \/ "content" \notin DOMAIN data.v.choices.v[1].v.message.v
                    \/ data.v.choices.v[1].v.message.v.content.k \in {"str", "null"}

\* C13 as claimed: for every response with a status below 400 whose body is a JSON
\* object, _generate returns a result and does not raise because optional fields
\* are missing or empty: choices absent, choices an empty list, a first choice
\* without message, a message without content.
C13_NeverRaisesOnMissingFields ==
  (SuccessfulJsonObject /\ OptionalFieldsMissingOrEmpty(response.json)) =>
    outcome.kind = "ChatResult"

\* C14: a response with a status of 400 or more makes _generate raise the
\* RuntimeError whose message holds the status code and the first 500 characters
\* of the response text, and no result is returned; a response with a status
\* below 400 never ends in that error.
C14_ErrorStatusRaises ==
  (Called /\ response.received) =>
    IF response.status_code >= 400
    THEN /\ outcome.kind = "raised"
         /\ outcome.exception = "RuntimeError"
         /\ outcome.message[2] = response.status_code
         /\ Len(outcome.message[4]) <= 500
         /\ outcome.message[4] = SubSeq(response.text, 1, Len(outcome.message[4]))
         /\ Len(response.text) <= 500 => outcome.message[4] = response.text
         /\ Len(response.text) > 500 => Len(outcome.message[4]) = 500
    ELSE ~(outcome.kind = "raised" /\ outcome.exception = "RuntimeError")

\* C14 witness: a 403 whose text is 501 characters long raised the error with the
\* first 500 of them.
C14_Witness ==
  /\ Called
  /\ response.received
  /\ response.status_code = 403
  /\ Len(response.text) = 501
  /\ outcome.kind = "raised"
  /\ outcome.exception = "RuntimeError"
  /\ outcome.message[2] = 403
  /\ Len(outcome.message[4]) = 500

\* the last post failed: the client raised, or the status is 400 or more
PostFailed(resp) == ~resp.received \/ resp.status_code >= 400

\* C15: every _generate issues exactly one POST: the posts made are as many as the
\* calls, each call adds one, and a call whose request fails ends by raising to
\* its caller, with no second request; a second request is a second call.
C15_OnePostPerCall ==
  /\ [](posts = calls)
  /\ [][calls' = calls + 1 =>
          /\ posts' = posts + 1
          /\ PostFailed(response') => outcome'.kind = "raised"]_vars

\* C15 witness: the caller called again after a failure; two calls, two posts, the
\* second failed as well and raised.
C15_Witness ==
  /\ calls = 2
  /\ posts = 2
  /\ PostFailed(response)
  /\ outcome.kind = "raised"

\* the last call was answered with HTTP 403
Answered403 == Called /\ response.received /\ response.status_code = 403

\* C16 as claimed: on a 403 the failure message delivered to the caller holds the
\* status code 403 and suggests the default-endpoint model family; no fallback is
\* made, the failure is raised.
C16_MessageSuggestsFallback ==
  Answered403 =>
    /\ outcome.kind = "raised"
    /\ outcome.message[2] = 403
    /\ outcome.message[6] = ADVICE_USE_DEFAULT_ENDPOINT_MODEL
    /\ posts = calls

\* C16 amended: on a 403 the RuntimeError raised to the caller holds the status
\* code 403 and the response text, and advises to check the token, not to change
\* the model family; no second request is made, to the same or another endpoint.
C16_MessageAdvisesTokenCheck ==
  Answered403 =>
    /\ outcome.kind = "raised"
    /\ outcome.exception = "RuntimeError"
    /\ outcome.message[2] = 403
    /\ outcome.message[4] = SubSeq(response.text, 1, Len(outcome.message[4]))
    /\ outcome.message[6] = ADVICE_CHECK_TOKEN
    /\ outcome.message[6] # ADVICE_USE_DEFAULT_ENDPOINT_MODEL
    /\ posts = calls
    /\ request.url = biz.base_url \o S_chat_completions

\* C16 witness: a call answered with 403 raised the RuntimeError with the advice
\* to check the token.
C16_Witness ==
  /\ Answered403
  /\ outcome.kind = "raised"
  /\ outcome.message[2] = 403
  /\ outcome.message[6] = ADVICE_CHECK_TOKEN
  /\ posts = 1

----------------------------------------------------------------------------
(* copilot_business_adapter.py: ChatCopilotBusiness.__del__.               *)

\* an adapter that has been discarded
Discarded == [status |-> "discarded"]

\* mutant of CloseHandle: the handle is left as it is
CloseHandle_Skip(hs, handle) == hs

\* self._http_client.close()
CloseHandle(hs, handle) == [hs EXCEPT ![handle].open = FALSE]

\* __del__: the client is closed if there is one; an adapter whose construction
\* failed has none
ChatCopilotBusiness_del(self, hs) ==
  IF self.status = "ok" THEN CloseHandle(hs, self.http_client_handle) ELSE hs

----------------------------------------------------------------------------
(* Specification of the life of adapters: constructions, changes of the     *)
(* environment, _generate calls, teardown.                                  *)

\* ChatCopilotBusiness adapters constructed in one behaviour
MaxAdapters == 2

TOKEN_A == <<"a">>

\* a credential that carries the prefix already, in lower case and after a blank
TOKEN_B == <<" ","b","e","a","r","e","r"," ","b">>

\* values the token variables take: the first unset or one of the two
\* credentials, the second unset or the second credential
LifecycleEnvValues(name) ==
  IF name = "GITHUB_COPILOT_BUSINESS_TOKEN"
  THEN { None, TOKEN_A, TOKEN_B } ELSE { None, TOKEN_B }

InitLifecycle ==
  /\ environ \in { [ GITHUB_COPILOT_TOKEN          |-> None,
                     GITHUB_COPILOT_SESSION_TOKEN  |-> None,
                     GITHUB_COPILOT_BUSINESS_TOKEN |-> bt ] : bt \in {None, TOKEN_A} }
  /\ ide_files = << >>
  /\ cop = NotConstructed
  /\ biz = NotConstructed
  /\ messages = << >>
  /\ encoded = NotRun
  /\ NoCalls
  /\ handles = << >>
  /\ NoScript
  /\ NoClientUse
  /\ NoInstances

\* ChatCopilotBusiness(api_key=...), when no such adapter is alive
NewBusinessAdapter ==
  /\ biz.status # "ok"
  /\ Len(SelectSeq(handles, LAMBDA h : h.owner = "ChatCopilotBusiness")) < MaxAdapters
  /\ \E api_key \in {None, <<"k">>}, machine_id \in Uuids :
       biz' = ChatCopilotBusiness_new(M_gpt_5, TEMP_ONE, 8000, api_key, machine_id, "uuid-2",
                                      environ, Len(handles) + 1)
  /\ handles' = handles \o ChatCopilotBusiness_handles(biz')
  /\ sent_auth' = {}
  /\ UNCHANGED <<environ, ide_files, cop, messages, encoded>>
  /\ UNCHANGED <<calls, posts, request, response, outcome, script_vars, client_vars, instance_vars>>

\* the program around the adapter sets or unsets a token variable
SetEnv ==
  /\ \E name \in {"GITHUB_COPILOT_BUSINESS_TOKEN", "GITHUB_COPILOT_SESSION_TOKEN"} :
     \E value \in LifecycleEnvValues(name) :
       /\ environ[name] # value
       /\ environ' = [environ EXCEPT ![name] = value]
  /\ UNCHANGED <<ide_files, cop, biz, messages, encoded>>
  /\ UNCHANGED <<generate_vars, handles, script_vars, client_vars, instance_vars>>

\* responses tried in this specification: an answer, a 403, no connection
LifecycleResponses ==
  << HttpResponse(200, << >>, BodiesTried[1]),
     HttpResponse(403, <<"n","o">>, [k |-> "invalid"]),
     ClientException("ConnectError") >>

\* one _generate call on the adapter that is alive
GenerateAlive ==
  GenerateWith(<< MessagesTried[2] >>, << << >> >>, LifecycleResponses, {"uuid-3"})

\* the adapter is discarded: __del__ runs
Discard ==
  /\ biz.status \in {"ok", "failed"}
  /\ handles' = ChatCopilotBusiness_del(biz, handles)
  /\ biz' = Discarded
  /\ UNCHANGED <<environ, ide_files, cop, messages, encoded>>
  /\ UNCHANGED <<generate_vars, script_vars, client_vars, instance_vars>>

\* ChatCopilot(model, api_key='k'), once
NewChatCopilotAlive ==
  /\ cop = NotConstructed
  /\ \E model \in {M_gpt_4o, M_claude_sonnet} :
       cop' = ChatCopilot_init(model, <<"k">>, None, TEMP_ONE, NONE_INT, FALSE,
                               "uuid-1", "uuid-2", environ)
  /\ handles' = handles \o ChatCopilot_handles(cop')
  /\ UNCHANGED <<environ, ide_files, biz, messages, encoded>>
  /\ UNCHANGED <<generate_vars, script_vars, client_vars, instance_vars>>

NextLifecycle ==
  \/ NewBusinessAdapter
  \/ SetEnv
  \/ GenerateAlive
  \/ Discard
  \/ NewChatCopilotAlive

SpecLifecycle == InitLifecycle /\ [][NextLifecycle]_vars

----------------------------------------------------------------------------
(* Claims about the life of an adapter, checked under SpecLifecycle.       *)

\* the authorization header that carries the credential c
CarriesCredential(a, c) ==
  LET token == Strip(c, WHITESPACE)
  IN  \/ a = S_Bearer \o token
      \/ a = token /\ StartsWith(Lower(token), <<"b","e","a","r","e","r"," ">>)

\* C17: the credential is the one resolved at construction: whatever calls are
\* made on an adapter and however the token variables change afterwards, the
\* authorization header of every request carries the credential the adapter has
\* held since its construction, and that credential changes only by constructing
\* a new adapter.
C17_CredentialNeverRefreshed ==
  /\ [](biz.status = "ok" => \A a \in sent_auth : CarriesCredential(a, biz.api_key))
  /\ [][(biz.status = "ok" /\ biz'.status = "ok") => biz'.api_key = biz.api_key]_vars

\* C17 witness: an adapter built from the environment's credential "a" has posted
\* twice, the variable now holds another credential, and every header posted
\* carries "a".
C17_Witness ==
  /\ biz.status = "ok"
  /\ biz.args.api_key = None
  /\ biz.api_key = TOKEN_A
  /\ environ["GITHUB_COPILOT_BUSINESS_TOKEN"] = TOKEN_B
  /\ calls = 2
  /\ sent_auth = { S_Bearer \o TOKEN_A }
  /\ request.headers["authorization"] = S_Bearer \o TOKEN_A

\* the handles created by the adapters of a class, and those of them still open
HandlesOf(owner) == { i \in DOMAIN handles : handles[i].owner = owner }

OpenHandlesOf(owner) == { i \in HandlesOf(owner) : handles[i].open }

\* an adapter of biz is alive and has made a call
AliveAndCalled == biz.status = "ok" /\ sent_auth # {}

\* what holds of the handle of a ChatCopilotBusiness: while the adapter is alive
\* its handle is the one open handle of the class and the one its requests went
\* through; after its teardown, and after a failed construction, none is open
BusinessHandleOwned ==
  /\ biz.status = "ok" => OpenHandlesOf("ChatCopilotBusiness") = {biz.http_client_handle}
  /\ AliveAndCalled => request.client = biz.http_client_handle
  /\ biz.status # "ok" => OpenHandlesOf("ChatCopilotBusiness") = {}

\* C18 as claimed: each adapter instance, ChatCopilotBusiness or ChatCopilot,
\* creates one HTTP client handle at construction, uses it for every call, and it
\* is closed when the adapter is discarded.
C18_OneHandlePerAdapter ==
  /\ BusinessHandleOwned
  /\ cop.status # "none" => Cardinality(HandlesOf("ChatCopilot")) <= 1

\* C18 amended: each ChatCopilotBusiness instance owns exactly one handle, created
\* by its successful construction, used for every call and closed at teardown; a
\* ChatCopilot creates two handles (a synchronous and an asynchronous client)
\* under the Chat Completions profile and none otherwise.
C18_BusinessOneHandleCopilotTwo ==
  /\ [](/\ BusinessHandleOwned
        /\ cop.status # "none" =>
             Cardinality(HandlesOf("ChatCopilot")) =
               IF DOMAIN cop.default_headers # {} THEN 2 ELSE 0)
  /\ [][/\ (biz.status # "ok" /\ biz'.status = "ok") =>
             /\ Len(handles') = Len(handles) + 1
             /\ biz'.http_client_handle = Len(handles')
        /\ (biz.status = "ok" /\ biz'.status = "ok") =>
             biz'.http_client_handle = biz.http_client_handle
        /\ (biz.status # "ok" /\ biz'.status # "ok") =>
             HandlesOf("ChatCopilotBusiness")' = HandlesOf("ChatCopilotBusiness")]_vars

\* C18 witness: two ChatCopilotBusiness adapters were constructed and discarded
\* after a call, their two handles are closed; a ChatCopilot under the Chat
\* Completions profile has created two handles.
C18_Witness ==
  /\ biz = Discarded
  /\ calls > 0
  /\ Cardinality(HandlesOf("ChatCopilotBusiness")) = 2
  /\ OpenHandlesOf("ChatCopilotBusiness") = {}
  /\ cop.status = "ok"
  /\ Cardinality(HandlesOf("ChatCopilot")) = 2

----------------------------------------------------------------------------
(* scripts/get_github_token.py: update_env_file.                           *)

\* the text "GITHUB_COPILOT_TOKEN=", group 1 of the pattern
S_TOKEN_KEY ==
  <<"G","I","T","H","U","B","_","C","O","P","I","L","O","T","_","T","O","K","E","N","=">>

NEWLINE == <<"\n">>

\* re.search(r'(GITHUB_COPILOT_TOKEN=).*', content): the key stands somewhere in
\* the text (".*" also matches nothing)
ReSearch(content) == Contains(S_TOKEN_KEY, content)

\* the key stands in content at position i
KeyAt(content, i) ==
  /\ i + Len(S_TOKEN_KEY) - 1 <= Len(content)
  /\ SubSeq(content, i, i + Len(S_TOKEN_KEY) - 1) = S_TOKEN_KEY

\* the position of the first "\n" at or after i, Len(content) + 1 when there is
\* none: where ".*" stops
EndOfLine(content, i) ==
  LET ends == { j \in i..Len(content) : content[j] = "\n" }
  IN  IF ends = {} THEN Len(content) + 1 ELSE CHOOSE j \in ends : \A l \in ends : j <= l

RECURSIVE ReSubFrom(_, _, _)
\* re.sub(pattern, r'\1' + token, content) from position i on: every match, the
\* key with the rest of its line, becomes the key followed by the token; the
\* token starts with a letter, so that r'\1' stays a reference to group 1
ReSubFrom(content, i, token) ==
  IF i > Len(content) THEN << >>
  ELSE IF KeyAt(content, i)
       THEN S_TOKEN_KEY \o token \o ReSubFrom(content, EndOfLine(content, i), token)
       ELSE << content[i] >> \o ReSubFrom(content, i + 1, token)

ReSub(content, token) == ReSubFrom(content, 1, token)

\* content.endswith('\n')
EndsWithNewline(content) == Len(content) > 0 /\ content[Len(content)] = "\n"

\* the text written when the key is not in the file: a newline if the text does
\* not end with one, an empty line, the assignment
AppendToken(content, token) ==
  (IF ~EndsWithNewline(content) THEN content \o NEWLINE ELSE content)
    \o NEWLINE \o S_TOKEN_KEY \o token \o NEWLINE

\* update_env_file(token): what it returns and the file afterwards. A missing
\* file gives False; so does a file that cannot be written, which stays as it is.
update_env_file(file, token) ==
  IF ~file.exists THEN [ok |-> FALSE, file |-> file]
  ELSE LET new_content == IF ReSearch(file.content)
                          THEN ReSub(file.content, token)
                          ELSE AppendToken(file.content, token)
       IN  IF ~file.writable THEN [ok |-> FALSE, file |-> file]
           ELSE [ok |-> TRUE, file |-> [file EXCEPT !.content = new_content]]

----------------------------------------------------------------------------
(* scripts/get_github_token.py: get_github_token and main.                 *)

\* a token must be longer than this
MIN_TOKEN_LEN == 20

\* get_github_token(): the output of `gh auth token` without surrounding
\* whitespace when gh ended with 0 and the text is longer than 20 characters,
\* else None
get_github_token(gh) ==
  IF gh.returncode = 0
  THEN LET token == Strip(gh.stdout, WHITESPACE)
       IN  IF token # << >> /\ Len(token) > MIN_TOKEN_LEN THEN token ELSE None
  ELSE None

\* the steps of main, none run yet
StepsNotRun ==
  [ check_gh_cli_installed |-> "not run", install_gh_cli |-> "not run",
    check_gh_auth |-> "not run", login_github |-> "not run",
    get_github_token |-> "not run", update_env_file |-> "not run" ]

\* the script as main() starts
ScriptStarted ==
  [pc |-> "check_gh_cli_installed", steps |-> StepsNotRun, token |-> None,
   exit_code |-> NONE_INT]

\* the process ends with the exit code given
Exit(s, code) == [s EXCEPT !.pc = "exited", !.exit_code = code]

\* a step returned True or something true ("ok"), or False or None ("failed")
StepResult(ok) == IF ok THEN "ok" ELSE "failed"

----------------------------------------------------------------------------
(* Specification of one run of scripts/get_github_token.py.                *)

\* longest .env file tried, in lines
MaxEnvLines == 2

\* lines tried in the .env file: a comment, another variable, the token's
\* assignment, a comment that shows the assignment
EnvLinesTried ==
  { <<"#"," ","c">>,
    <<"A","=","1">>,
    S_TOKEN_KEY \o <<"o","l","d">>,
    <<"#"," ">> \o S_TOKEN_KEY \o <<"x">> }

RECURSIVE JoinLines(_)
\* "\n".join(lines)
JoinLines(lines) ==
  IF lines = << >> THEN << >>
  ELSE IF Len(lines) = 1 THEN lines[1]
       ELSE lines[1] \o NEWLINE \o JoinLines(Tail(lines))

\* the .env files tried: missing, or some lines with or without a final newline,
\* writable or not
EnvFilesTried ==
  { NoFile } \cup
  { [exists |-> TRUE, content |-> JoinLines(lines) \o last, writable |-> writable] :
      lines \in ListsUpTo(EnvLinesTried, MaxEnvLines), last \in { << >>, NEWLINE },
      writable \in BOOLEAN }

\* a token as gh prints it: one character longer than the least length
GH_TOKEN == <<"g","h","o","_">> \o [i \in 1..(MIN_TOKEN_LEN - 3) |-> "t"]

\* what `gh auth token` gives, as tried: a failure, nothing, a text of exactly the
\* least length, a token
GhTokenOutputs ==
  << [returncode |-> 1, stdout |-> << >>],
     [returncode |-> 0, stdout |-> NEWLINE],
     [returncode |-> 0, stdout |-> SubSeq(GH_TOKEN, 1, MIN_TOKEN_LEN) \o NEWLINE],
     [returncode |-> 0, stdout |-> GH_TOKEN \o NEWLINE] >>

InitScript ==
  /\ environ = [n \in EnvNames |-> None]
  /\ ide_files = << >>
  /\ cop = NotConstructed
  /\ biz = NotConstructed
  /\ messages = << >>
  /\ encoded = NotRun
  /\ NoCalls
  /\ handles = << >>
  /\ NoClientUse
  /\ NoInstances
  /\ script = ScriptStarted
  /\ env_file \in EnvFilesTried

\* step 1 of main: check_gh_cli_installed()
CheckGhCliInstalled ==
  /\ script.pc = "check_gh_cli_installed"
  /\ \E installed \in BOOLEAN :
       script' = [script EXCEPT !.steps.check_gh_cli_installed = StepResult(installed),
                                !.pc = IF installed THEN "check_gh_auth"
                                       ELSE "install_gh_cli"]
  /\ UNCHANGED <<env_file, adapter_vars, generate_vars, handles, client_vars, instance_vars>>

\* gh is missing: install_gh_cli(), then sys.exit(1) when it failed and
\* sys.exit(0) when it installed gh
InstallGhCli ==
  /\ script.pc = "install_gh_cli"
  /\ \E installed \in BOOLEAN :
       script' = Exit([script EXCEPT !.steps.install_gh_cli = StepResult(installed)],
                      IF installed THEN 0 ELSE 1)
  /\ UNCHANGED <<env_file, adapter_vars, generate_vars, handles, client_vars, instance_vars>>

\* step 2 of main: check_gh_auth()
CheckGhAuth ==
  /\ script.pc = "check_gh_auth"
  /\ \E logged_in \in BOOLEAN :
       script' = [script EXCEPT !.steps.check_gh_auth = StepResult(logged_in),
                                !.pc = IF logged_in THEN "get_github_token"
                                       ELSE "login_github"]
  /\ UNCHANGED <<env_file, adapter_vars, generate_vars, handles, client_vars, instance_vars>>

\* not logged in: login_github(), then sys.exit(1) when it failed
LoginGithub ==
  /\ script.pc = "login_github"
  /\ \E logged_in \in BOOLEAN :
       script' = IF logged_in
                 THEN [script EXCEPT !.steps.login_github = "ok",
                                     !.pc = "get_github_token"]
                 ELSE Exit([script EXCEPT !.steps.login_github = "failed"], 1)
  /\ UNCHANGED <<env_file, adapter_vars, generate_vars, handles, client_vars, instance_vars>>

\* step 3 of main: token = get_github_token(), then sys.exit(1) without a token
GetGithubToken ==
  /\ script.pc = "get_github_token"
  /\ \E i \in DOMAIN GhTokenOutputs :
       LET token == get_github_token(GhTokenOutputs[i])
       IN  script' = IF ~Truthy(token)
                     THEN Exit([script EXCEPT !.steps.get_github_token = "failed"], 1)
                     ELSE [script EXCEPT !.steps.get_github_token = "ok",
                                         !.token = token,
                                         !.pc = "update_env_file"]
  /\ UNCHANGED <<env_file, adapter_vars, generate_vars, handles, client_vars, instance_vars>>

\* steps 4 and 5 of main: update_env_file(token); whatever it returns, main prints
\* and returns, and the process ends with exit code 0
UpdateEnvFile ==
  /\ script.pc = "update_env_file"
  /\ LET updated == update_env_file(env_file, script.token)
     IN  /\ env_file' = updated.file
         /\ script' = Exit([script EXCEPT !.steps.update_env_file = StepResult(updated.ok)], 0)
  /\ UNCHANGED <<adapter_vars, generate_vars, handles, client_vars, instance_vars>>

\* the user interrupts the script: the KeyboardInterrupt handler calls sys.exit(1)
KeyboardInterrupt ==
  /\ script.pc \notin {"not started", "exited"}
  /\ script' = Exit(script, 1)
  /\ UNCHANGED <<env_file, adapter_vars, generate_vars, handles, client_vars, instance_vars>>

NextScript ==
  \/ CheckGhCliInstalled
  \/ InstallGhCli
  \/ CheckGhAuth
  \/ LoginGithub
  \/ GetGithubToken
  \/ UpdateEnvFile
  \/ KeyboardInterrupt

SpecScript == InitScript /\ [][NextScript]_vars

----------------------------------------------------------------------------
(* Claims about scripts/get_github_token.py, checked under SpecScript.     *)

\* the steps whose failure the script reports as a failure of the configuration
FailureSteps ==
  { "install_gh_cli", "login_github", "get_github_token", "update_env_file" }

\* C19 as claimed: the script ends with exit code 0 or 1; with 0 only when the
\* token was fetched and written to the .env file; with 1 whenever a step failed.
C19_ExitCodeByOutcome ==
  script.pc = "exited" =>
    /\ script.exit_code \in {0, 1}
    /\ script.exit_code = 0 =>
         /\ script.steps.get_github_token = "ok"
         /\ script.steps.update_env_file = "ok"
    /\ (\E st \in FailureSteps : script.steps[st] = "failed") => script.exit_code = 1

RECURSIVE SplitLines(_)
\* content.split("\n")
SplitLines(content) ==
  IF EndOfLine(content, 1) > Len(content) THEN << content >>
  ELSE << SubSeq(content, 1, EndOfLine(content, 1) - 1) >>
         \o SplitLines(SubSeq(content, EndOfLine(content, 1) + 1, Len(content)))

\* the lines of a file: a final newline ends the last line and begins no other
FileLines(content) ==
  IF content = << >> THEN << >>
  ELSE IF EndsWithNewline(content)
       THEN SplitLines(SubSeq(content, 1, Len(content) - 1))
       ELSE SplitLines(content)

\* a line that assigns the token variable
IsTokenAssignment(line) == StartsWith(line, S_TOKEN_KEY)

\* the file after the update, as claimed: the assignment lines of the old file are
\* replaced by GITHUB_COPILOT_TOKEN=<token>, or that line is added when there is
\* none, and every other line is as it was (empty lines set aside when the line
\* is added)
OneLineRewritten(old, new, token) ==
  LET old_lines == FileLines(old)
      new_lines == FileLines(new)
  IN  IF \E i \in DOMAIN old_lines : IsTokenAssignment(old_lines[i])
      THEN /\ Len(new_lines) = Len(old_lines)
           /\ \A i \in DOMAIN old_lines :
                new_lines[i] = IF IsTokenAssignment(old_lines[i])
                               THEN S_TOKEN_KEY \o token ELSE old_lines[i]
      ELSE /\ \E i \in DOMAIN new_lines : new_lines[i] = S_TOKEN_KEY \o token
           /\ SelectSeq(new_lines, LAMBDA l : l # << >> /\ l # S_TOKEN_KEY \o token)
                = SelectSeq(old_lines, LAMBDA l : l # << >>)

\* C20 as claimed: after a successful update_env_file the file holds the line
\* GITHUB_COPILOT_TOKEN=<token>, in the place of the existing assignment or added
\* when there is none, and every other line, comment or assignment of another
\* variable, is unchanged.
C20_OtherLinesUnchanged ==
  [][(script.pc = "update_env_file" /\ script'.steps.update_env_file = "ok") =>
       OneLineRewritten(env_file.content, env_file'.content, script.token)]_vars

-----------------------------------------------------------------------------
(* CopilotHTTPClient and CopilotAsyncHTTPClient on their own: a client is    *)
(* made with or without the flag and builds requests from given headers; a   *)
(* built request's headers may be handed to build_request again.             *)

\* how many times in a row one request's headers pass through build_request
MaxPasses == 2

S_Basic == <<"B","a","s","i","c"," ">>

\* authorization values tried: tokens of several shapes behind "Bearer ",
\* among them the empty token and a token that itself starts with "Bearer ";
\* values already rewritten; values that differ from "Bearer " in case, in the
\* missing space, in a leading space, or in the scheme
AuthorizationsTried ==
  { S_Bearer \o <<"k">>,
    S_Bearer \o <<"g","h","u","_","1">>,
    S_Bearer,
    S_Bearer \o S_Bearer \o <<"k">>,
    S_Bearer \o <<" ","k"," ">>,
    S_GitHub_Bearer \o <<"k">>,
    S_GitHub_Bearer \o S_Bearer \o <<"k">>,
    <<"b","e","a","r","e","r"," ","k">>,
    <<"B","e","a","r","e","r","k">>,
    <<"B","e","a","r","e","r">>,
    <<" ">> \o S_Bearer \o <<"k">>,
    S_Basic \o <<"k">>,
    << >> }

\* the other headers of a request
OtherHeadersTried ==
  { << >>,
    [n \in {"content-type"} |-> <<"j","s","o","n">>],
    [n \in {"content-type", "x-request-id"} |->
       IF n = "content-type" THEN <<"j","s","o","n">> ELSE S_Bearer \o <<"k">>] }

\* the request headers tried: with and without an authorization header
HeadersTried ==
  OtherHeadersTried \cup
  { [n \in {"authorization"} |-> a] @@ o :
      a \in AuthorizationsTried, o \in OtherHeadersTried }

ClientClasses == {"CopilotHTTPClient", "CopilotAsyncHTTPClient"}

\* the keyword arguments a client is made with
ClientKwargsTried ==
  { << >> } \cup { [n \in {"use_github_bearer"} |-> f] : f \in BOOLEAN }

InitRequest ==
  /\ environ = [n \in EnvNames |-> None]
  /\ ide_files = << >>
  /\ cop = NotConstructed
  /\ biz = NotConstructed
  /\ messages = << >>
  /\ encoded = NotRun
  /\ NoCalls
  /\ handles = << >>
  /\ NoScript
  /\ NoClientUse
  /\ NoInstances

\* CopilotHTTPClient(**kwargs) or CopilotAsyncHTTPClient(**kwargs)
NewCopilotHTTPClient ==
  /\ ~client.constructed
  /\ \E class \in ClientClasses, kwargs \in ClientKwargsTried :
       client' = CopilotHTTPClient_init(class, kwargs)
  /\ UNCHANGED <<built, adapter_vars, generate_vars, handles, script_vars, instance_vars>>

\* client.build_request(headers=...) for a new request
BuildRequest ==
  /\ client.constructed
  /\ ~built.done
  /\ \E headers \in HeadersTried :
       built' = [done |-> TRUE, given |-> headers, passes |-> 1,
                 headers |-> ClientBuildRequest(client, headers)]
  /\ UNCHANGED <<client, adapter_vars, generate_vars, handles, script_vars, instance_vars>>

\* client.build_request(headers=request.headers): the headers of the request
\* just built pass through the same client again
BuildRequestAgain ==
  /\ client.constructed
  /\ built.done
  /\ built.passes < MaxPasses
  /\ built' = [built EXCEPT !.passes = @ + 1,
                            !.headers = ClientBuildRequest(client, @)]
  /\ UNCHANGED <<client, adapter_vars, generate_vars, handles, script_vars, instance_vars>>

NextRequest ==
  \/ NewCopilotHTTPClient
  \/ BuildRequest
  \/ BuildRequestAgain

SpecRequest == InitRequest /\ [][NextRequest]_vars

-----------------------------------------------------------------------------
(* C21                                                                       *)

\* the value is "Bearer " followed by a token
IsPlainBearer(v) ==
  /\ Len(v) >= Len(S_Bearer)
  /\ \A i \in 1..Len(S_Bearer) : v[i] = S_Bearer[i]

\* the token T of "Bearer T"
TokenOf(v) == [i \in 1..(Len(v) - Len(S_Bearer)) |-> v[i + Len(S_Bearer)]]

\* the request was given an authorization header of the form "Bearer T"
GivenPlainBearer ==
  /\ "authorization" \in DOMAIN built.given
  /\ IsPlainBearer(built.given["authorization"])

\* every header but authorization is as given, and no header is added or dropped
OtherHeadersAsGiven ==
  /\ DOMAIN built.headers = DOMAIN built.given
  /\ \A n \in DOMAIN built.given \ {"authorization"} :
       built.headers[n] = built.given[n]

\* the first pass: "Bearer T" becomes "GitHub-Bearer T" when the flag is on,
\* and every other request is as given
RewrittenOnce ==
  (built.done /\ built.passes = 1) =>
    IF client.use_github_bearer /\ GivenPlainBearer
    THEN /\ built.headers["authorization"] =
              S_GitHub_Bearer \o TokenOf(built.given["authorization"])
         /\ OtherHeadersAsGiven
    ELSE built.headers = built.given

\* with the flag off no pass changes any header
FlagOffNothingModified ==
  (built.done /\ ~client.use_github_bearer) => built.headers = built.given

\* a further pass of a built request through the client changes nothing
FurtherPassChangesNothing ==
  (built.done /\ built'.done /\ built'.passes = built.passes + 1)
    => built'.headers = built.headers

\* C21: a client with the flag on turns the authorization header "Bearer T"
\* into "GitHub-Bearer T" with T unchanged and leaves a request without an
\* authorization header, or with one that does not start with "Bearer ", as it
\* was given; building from an already built request changes nothing; a client
\* with the flag off modifies no header.  Both client classes.
C21_BearerRewrite ==
  /\ [](RewrittenOnce /\ FlagOffNothingModified)
  /\ [][FurtherPassChangesNothing]_vars

\* an asynchronous client with the flag on has rewritten "Bearer T" and built
\* from the rewritten request again
C21_Witness ==
  /\ client.constructed
  /\ client.class = "CopilotAsyncHTTPClient"
  /\ client.use_github_bearer
  /\ built.done
  /\ built.passes = 2
  /\ GivenPlainBearer
  /\ Len(TokenOf(built.given["authorization"])) > 1
  /\ built.headers["authorization"] =
       S_GitHub_Bearer \o TokenOf(built.given["authorization"])
  /\ DOMAIN built.given # {"authorization"}

-----------------------------------------------------------------------------
(* ChatCopilotBusiness instances side by side: constructions, a changing     *)
(* environment, _generate calls on any of the instances.                     *)

\* ChatCopilotBusiness instances alive side by side
MaxInstances == 2

ENV_MACHINE_ID == <<"m","e">>

ENV_SESSION_ID == <<"s","e">>

InstanceEnvNames ==
  EnvNames \cup { "COPILOT_VSCODE_MACHINEID", "COPILOT_VSCODE_SESSIONID" }

\* str(uuid.uuid4()) for the machine and the session identifier of the n-th
\* construction: fresh values, alike for no two constructions
FreshMachineId(n) == <<"m", ToString(n)>>

FreshSessionId(n) == <<"s", ToString(n)>>

\* the arguments of the constructions tried: model, temperature, max_tokens,
\* api_key
InstanceArgsTried ==
  << <<M_gpt_5, TEMP_ONE, 8000, <<"k">>>>,
     <<M_gpt_4o, 0, NONE_INT, TOKEN_B>>,
     <<M_gpt_5, TEMP_ONE, 8000, None>> >>

\* responses tried in this specification: an answer, a 403, no connection
InstanceResponses ==
  << HttpResponse(200, << >>, BodiesTried[1]),
     HttpResponse(403, <<"n","o">>, [k |-> "invalid"]),
     ClientException("ConnectError") >>

\* keyword arguments tried in this specification: none, and another model with
\* another temperature
InstanceKwargs == << << >>, [model |-> M_gpt_4_1, temperature |-> 1] >>

InitInstances ==
  /\ environ \in { [n \in InstanceEnvNames |->
                      IF n = "COPILOT_VSCODE_SESSIONID" THEN sid ELSE None] :
                   sid \in {None, ENV_SESSION_ID} }
  /\ ide_files = << >>
  /\ cop = NotConstructed
  /\ biz = NotConstructed
  /\ messages = << >>
  /\ encoded = NotRun
  /\ NoCalls
  /\ handles = << >>
  /\ NoScript
  /\ NoClientUse
  /\ NoInstances

\* ChatCopilotBusiness(model=..., temperature=..., max_tokens=..., api_key=...)
\* next to the instances there are; a construction that raises leaves no instance
NewInstance ==
  /\ Len(instances) < MaxInstances
  /\ \E a \in DOMAIN InstanceArgsTried :
       LET args == InstanceArgsTried[a]
           n    == Len(handles) + 1
           machine_id == Getenv(environ, "COPILOT_VSCODE_MACHINEID", FreshMachineId(n))
           session_id == Getenv(environ, "COPILOT_VSCODE_SESSIONID", FreshSessionId(n))
       IN  /\ biz' = ChatCopilotBusiness_new(args[1], args[2], args[3], args[4],
                                            machine_id, session_id, environ, n)
  /\ handles' = handles \o ChatCopilotBusiness_handles(biz')
  /\ instances' = IF biz'.status = "ok" THEN Append(instances, biz') ELSE instances
  /\ sent_ids' = IF biz'.status = "ok" THEN Append(sent_ids, {}) ELSE sent_ids
  /\ UNCHANGED <<environ, ide_files, cop, messages, encoded, caller>>
  /\ UNCHANGED <<generate_vars, script_vars, client_vars>>

\* the program around the adapters sets or unsets the machine identifier
\* variable
SetMachineIdEnv ==
  /\ \E value \in {None, ENV_MACHINE_ID} :
       /\ environ["COPILOT_VSCODE_MACHINEID"] # value
       /\ environ' = [environ EXCEPT !["COPILOT_VSCODE_MACHINEID"] = value]
  /\ UNCHANGED <<ide_files, cop, biz, messages, encoded>>
  /\ UNCHANGED <<generate_vars, handles, script_vars, client_vars, instance_vars>>

\* one call instances[i]._generate(msgs, **kwargs), answered by one of the
\* responses; no statement of _generate assigns to self
GenerateOn ==
  /\ calls < MaxCalls
  /\ \E i \in DOMAIN instances, kw \in DOMAIN InstanceKwargs, r \in DOMAIN InstanceResponses :
       LET g == _generate(instances[i], MessagesTried[2], InstanceKwargs[kw], environ,
                          <<"u","1">>, <<"u","2">>, InstanceResponses[r])
       IN  /\ caller' = i
           /\ messages' = MessagesTried[2]
           /\ encoded' = [done |-> TRUE, result |-> _convert_messages(MessagesTried[2])]
           /\ calls' = calls + 1
           /\ posts' = posts + Len(g.requests)
           /\ request' = g.requests[Len(g.requests)]
           /\ response' = InstanceResponses[r]
           /\ outcome' = g.outcome
           /\ sent_ids' = [sent_ids EXCEPT ![i] = @ \cup
                { << g.requests[q].headers["vscode-machineid"],
                     g.requests[q].headers["vscode-sessionid"] >> : q \in DOMAIN g.requests }]
  /\ UNCHANGED <<environ, ide_files, cop, biz, sent_auth, instances>>
  /\ UNCHANGED <<handles, script_vars, client_vars>>

NextInstances ==
  \/ NewInstance
  \/ SetMachineIdEnv
  \/ GenerateOn

SpecInstances == InitInstances /\ [][NextInstances]_vars

-----------------------------------------------------------------------------
(* C22                                                                       *)

\* what the claim lists of an instance: model, credential, temperature,
\* max_tokens, base URL, machine identifier, session identifier
ConstructionFields(a) ==
  << a.model, a.api_key, a.temperature, a.max_tokens, a.base_url,
     a.vscode_machine_id, a.vscode_session_id >>

\* every instance there is keeps its place and its fields in the next state,
\* whatever the step: a call on it, a call on another, a construction, a change
\* of the environment
InstancesKept ==
  \A i \in DOMAIN instances :
    /\ i \in DOMAIN instances'
    /\ ConstructionFields(instances'[i]) = ConstructionFields(instances[i])

\* every request of an instance carried the identifiers of that instance
IdsSentAreOwn ==
  \A i \in DOMAIN sent_ids :
    sent_ids[i] \subseteq
      { << instances[i].vscode_machine_id, instances[i].vscode_session_id >> }

\* the last request went through the HTTP client of the instance that made the
\* call, and no two instances have the same client
OwnHttpClient ==
  /\ caller # 0 => request.client = instances[caller].http_client_handle
  /\ \A i, j \in DOMAIN instances :
       i # j => instances[i].http_client_handle # instances[j].http_client_handle

\* C22: over any sequence of _generate calls, answered or failing, an instance's
\* model, credential, temperature, max_tokens, base URL, machine identifier and
\* session identifier stay as set at construction, so every request of an
\* instance carries the same vscode-machineid and vscode-sessionid; a call on
\* one instance, or the construction of another, changes nothing of an
\* instance, and each has an HTTP client of its own.
C22_CallsLeaveInstancesAlone ==
  /\ [](IdsSentAreOwn /\ OwnHttpClient)
  /\ [][InstancesKept]_vars

\* two instances with different fields have both made calls, the last one
\* failing, after the machine identifier variable was set to a value neither
\* instance holds
C22_Witness ==
  /\ Len(instances) = 2
  /\ ConstructionFields(instances[1])[1] # ConstructionFields(instances[2])[1]
  /\ instances[1].vscode_machine_id # instances[2].vscode_machine_id
  /\ sent_ids[1] # {}
  /\ sent_ids[2] # {}
  /\ calls = 2
  /\ outcome.kind = "raised"
  /\ environ["COPILOT_VSCODE_MACHINEID"] = ENV_MACHINE_ID
  /\ instances[1].vscode_machine_id # ENV_MACHINE_ID
  /\ instances[2].vscode_machine_id # ENV_MACHINE_ID

=============================================================================
